---- MODULE Spec2Model ----
(***************************************************************************)
(* ResuMatch Pro: the job-match pipeline (storage, LLM gateway, the        *)
(* submit-responses / generate-resume routes and the results page) and the *)
(* resume analysis route.                                                  *)
(*                                                                         *)
(* Conventions.  A JS object is a function from field names to values; a   *)
(* field it lacks reads undefined.  An optional value is None == <<>> or   *)
(* Some(x) == <<x>>.  A JS array is a sequence; the code's 0-based index i *)
(* is position i + 1.  A text is a sequence of tokens; the token SEP is    *)
(* one occurrence of the literal "===SEPARATOR===", the token " " is       *)
(* whitespace.  A JSON value of a model reply is a tagged record.          *)
(***************************************************************************)
EXTENDS Integers, Sequences, FiniteSets, TLC

VARIABLES
    jobMatches,   \* MemStorage.jobMatches: id -> JobMatch
    resumes,      \* MemStorage.resumes: id -> Resume
    analyses,     \* MemStorage.analyses: id -> Analysis
    last,         \* the last HTTP exchange
    page,         \* the JobMatchResults page open in the browser
    users,        \* MemStorage.users: id -> User
    inflight      \* the requests and storage calls that have begun

vars == <<jobMatches, resumes, analyses, last, page, users, inflight>>

None == <<>>
Some(x) == <<x>>
IsSome(o) == o # None
The(o) == o[1]

(* obj.field: None when the object lacks the field (undefined) *)
Field(obj, field) == IF field \in DOMAIN obj THEN Some(obj[field]) ELSE None

(* { ...obj, ...update } *)
Spread(obj, update) ==
    [k \in DOMAIN obj \cup DOMAIN update |->
        IF k \in DOMAIN update THEN update[k] ELSE obj[k]]

Min(a, b) == IF a < b THEN a ELSE b
Max(a, b) == IF a > b THEN a ELSE b

----------------------------------------------------------------------------
(* Bounds of the model *)

\* gaps per JobMatch in the pipeline (the gateway caps them at MaxGapsKept)
MaxGaps == 2

\* an index far outside any gaps array
FarIndex == 99

JobMatchIds == {"jm1", "jm2"}
AnalysisIds == {"a1", "a2"}

PROFICIENCY_LEVELS == {"none", "basic", "moderate", "advanced"}

\* proficiency values picked on the page
PickedLevels == {"none", "advanced"}

----------------------------------------------------------------------------
(* MemStorage *)

getJobMatch(id) == IF id \in DOMAIN jobMatches THEN Some(jobMatches[id]) ELSE None

(* randomUUID(): an id no stored JobMatch has *)
FreshJobMatchId == IF "jm1" \notin DOMAIN jobMatches THEN "jm1" ELSE "jm2"

(* new Date() *)
Now == "now"

(* this.jobMatches.set(id, value) *)
MapSet(store, id, value) ==
    [k \in DOMAIN store \cup {id} |-> IF k = id THEN value ELSE store[k]]

createJobMatch(store, id, insertJobMatch) ==
    MapSet(store, id, Spread(Spread([id |-> id], insertJobMatch), [createdAt |-> Now]))

(* bug: a verdict that is stored already is not replaced *)
UpdateResponsesKeepingVerdict(store, id, gapResponses, finalVerdict, shouldApply) ==
    IF id \notin DOMAIN store THEN store
    ELSE MapSet(store, id,
            Spread(store[id],
                   [gapResponses |-> gapResponses,
                    finalVerdict |-> IF "finalVerdict" \in DOMAIN store[id]
                                     THEN store[id].finalVerdict ELSE finalVerdict,
                    shouldApply |-> shouldApply]))

(* bug: the record is written back from the creation fields and the new    *)
(* responses: a tailored resume stored meanwhile is gone                   *)
UpdateResponsesClearingResume(store, id, gapResponses, finalVerdict, shouldApply) ==
    IF id \notin DOMAIN store THEN store
    ELSE MapSet(store, id,
            Spread([k \in DOMAIN store[id] \ {"tailoredResumeContent"} |-> store[id][k]],
                   [gapResponses |-> gapResponses,
                    finalVerdict |-> finalVerdict,
                    shouldApply |-> shouldApply]))

(* bug: the update has no where clause on the id: every JobMatch of the     *)
(* same resume takes the responses                                          *)
UpdateResponsesOfResume(store, id, gapResponses, finalVerdict, shouldApply) ==
    IF id \notin DOMAIN store THEN store
    ELSE [k \in DOMAIN store |->
            IF store[k].resumeId = store[id].resumeId
            THEN Spread(store[k],
                        [gapResponses |-> gapResponses,
                         finalVerdict |-> finalVerdict,
                         shouldApply |-> shouldApply])
            ELSE store[k]]

(* bug: the new responses are added to the stored ones, not put in their place *)
UpdateResponsesMerging(store, id, gapResponses, finalVerdict, shouldApply) ==
    IF id \notin DOMAIN store THEN store
    ELSE MapSet(store, id,
            Spread(store[id],
                   [gapResponses |->
                        (IF "gapResponses" \in DOMAIN store[id]
                         THEN store[id].gapResponses ELSE <<>>) \o gapResponses,
                    finalVerdict |-> finalVerdict,
                    shouldApply |-> shouldApply]))

(* bug: shouldApply is left out of the update *)
UpdateResponsesWithoutShouldApply(store, id, gapResponses, finalVerdict, shouldApply) ==
    IF id \notin DOMAIN store THEN store
    ELSE MapSet(store, id,
            Spread(store[id],
                   [gapResponses |-> gapResponses, finalVerdict |-> finalVerdict]))

updateJobMatchResponses(store, id, gapResponses, finalVerdict, shouldApply) ==
    IF id \notin DOMAIN store THEN store
    ELSE MapSet(store, id,
            Spread(store[id],
                   [gapResponses |-> gapResponses,
                    finalVerdict |-> finalVerdict,
                    shouldApply |-> shouldApply]))

(* bug: the record is rebuilt from the creation fields, without the spread *)
UpdateResumeDroppingStage(store, id, tailoredResumeContent) ==
    IF id \notin DOMAIN store THEN store
    ELSE MapSet(store, id,
            [k \in (DOMAIN store[id] \ {"gapResponses", "finalVerdict", "shouldApply"})
                    \cup {"tailoredResumeContent"} |->
                IF k = "tailoredResumeContent" THEN tailoredResumeContent
                ELSE store[id][k]])

updateJobMatchResume(store, id, tailoredResumeContent) ==
    IF id \notin DOMAIN store THEN store
    ELSE MapSet(store, id,
            Spread(store[id], [tailoredResumeContent |-> tailoredResumeContent]))

getResume(id) == IF id \in DOMAIN resumes THEN Some(resumes[id]) ELSE None

FreshAnalysisId == IF "a1" \notin DOMAIN analyses THEN "a1" ELSE "a2"

(* bug: one analysis per resume, the new one taking the place of the old *)
CreateAnalysisPerResume(store, id, insertAnalysis) ==
    LET others == {a \in DOMAIN store : store[a].resumeId # insertAnalysis.resumeId}
    IN  [a \in others \cup {id} |->
            IF a = id
            THEN [id |-> id,
                  resumeId |-> insertAnalysis.resumeId,
                  completenessScore |-> insertAnalysis.completenessScore,
                  completenessRationale |-> insertAnalysis.completenessRationale,
                  sectionScores |-> insertAnalysis.sectionScores,
                  suggestions |-> insertAnalysis.suggestions,
                  createdAt |-> Now]
            ELSE store[a]]

createAnalysis(store, id, insertAnalysis) ==
    MapSet(store, id,
           [id |-> id,
            resumeId |-> insertAnalysis.resumeId,
            completenessScore |-> insertAnalysis.completenessScore,
            completenessRationale |-> insertAnalysis.completenessRationale,
            sectionScores |-> insertAnalysis.sectionScores,
            suggestions |-> insertAnalysis.suggestions,
            createdAt |-> Now])

----------------------------------------------------------------------------
(* JSON values of a model reply, and JavaScript's reading of them *)

JStr(s) == [t |-> "string", v |-> s]
JBool(b) == [t |-> "boolean", v |-> IF b THEN "true" ELSE "false"]
JNum(n) == [t |-> "number", n |-> n]
JArr(items) == [t |-> "array", items |-> items]
JObj(fields) == [t |-> "object", fields |-> fields]
JNull == [t |-> "null", v |-> "null"]
Undefined == [t |-> "undefined", v |-> "undefined"]

(* the values JavaScript's || treats as false *)
Falsy(j) ==
    \/ j.t \in {"null", "undefined"}
    \/ j.t = "string" /\ j.v = ""
    \/ j.t = "boolean" /\ j.v = "false"
    \/ j.t = "number" /\ j.n = 0

(* a || b *)
OrElse(a, b) == IF Falsy(a) THEN b ELSE a

(* j.field and j?.field on a value that is not null or undefined *)
JGet(j, field) ==
    IF j.t = "object" /\ field \in DOMAIN j.fields THEN j.fields[field] ELSE Undefined

(* bug: one item more than the cap is kept *)
SliceOneMore(items, cap) == SubSeq(items, 1, Min(cap + 1, Len(items)))

(* array.slice(0, cap) *)
slice(items, cap) == SubSeq(items, 1, Min(cap, Len(items)))

(* A reply of the provider: the call throws (ok = FALSE), or it returns a   *)
(* response whose text is empty, is not JSON, or is the JSON value val.     *)
ProviderError == [ok |-> FALSE, fmt |-> "none", val |-> Undefined]
EmptyReply == [ok |-> TRUE, fmt |-> "empty", val |-> Undefined]
InvalidReply == [ok |-> TRUE, fmt |-> "invalid", val |-> Undefined]
JsonReply(fields) == [ok |-> TRUE, fmt |-> "json", val |-> JObj(fields)]

(* What a gateway function gives its caller: a value, or an exception *)
Returned(v) == [threw |-> FALSE, value |-> v]
Thrown == [threw |-> TRUE, value |-> <<>>]

(* JSON.parse(response.text || "{}"): "" reads as {}, non-JSON text throws *)
JSONparse(reply) ==
    CASE reply.fmt = "empty" -> Returned(JObj(<<>>))
      [] reply.fmt = "json" -> Returned(reply.val)
      [] OTHER -> Thrown

----------------------------------------------------------------------------
(* LLM gateway *)

MaxCompleteness == 100
MaxSectionScore == 5
MaxSuggestions == 8
MaxAlignment == 100
MaxGapsKept == 8
MaxStrengths == 6
MaxRecommendations == 8

NoRationale == "No rationale provided"

(* bug: the upper limit is not applied *)
ClampBelowOnly(hi, j) == Max(0, OrElse(j, JNum(0)).n)

(* Math.min(hi, Math.max(0, j || 0)) *)
clamp(hi, j) == Min(hi, Max(0, OrElse(j, JNum(0)).n))

analyzeResume(reply) ==
    IF ~reply.ok THEN Thrown
    ELSE LET parsed == JSONparse(reply) IN
         IF parsed.threw THEN Thrown
         ELSE LET analysisData == parsed.value
                  sectionScores == JGet(analysisData, "sectionScores")
              IN
              Returned(
                [completenessScore |->
                    clamp(MaxCompleteness, JGet(analysisData, "completenessScore")),
                 completenessRationale |->
                    OrElse(JGet(analysisData, "completenessRationale"),
                           JStr(NoRationale)).v,
                 sectionScores |->
                    [summary |-> clamp(MaxSectionScore, JGet(sectionScores, "summary")),
                     education |-> clamp(MaxSectionScore, JGet(sectionScores, "education")),
                     experience |-> clamp(MaxSectionScore, JGet(sectionScores, "experience")),
                     other |-> clamp(MaxSectionScore, JGet(sectionScores, "other"))],
                 suggestions |->
                    slice(OrElse(JGet(analysisData, "suggestions"), JArr(<<>>)).items,
                          MaxSuggestions)])

SEVERITIES == {"high", "medium", "low"}

(* bug: any string is taken as a severity *)
GapOfTrusting(gap) ==
    [category |-> OrElse(JGet(gap, "category"), JStr("Unknown")).v,
     description |-> OrElse(JGet(gap, "description"), JStr("")).v,
     severity |->
        IF JGet(gap, "severity").t = "string" /\ JGet(gap, "severity").v # ""
        THEN JGet(gap, "severity").v ELSE "medium"]

(* the map callback of analyzeJobMatch *)
gapOf(gap) ==
    [category |-> OrElse(JGet(gap, "category"), JStr("Unknown")).v,
     description |-> OrElse(JGet(gap, "description"), JStr("")).v,
     severity |->
        IF JGet(gap, "severity").t = "string" /\ JGet(gap, "severity").v \in SEVERITIES
        THEN JGet(gap, "severity").v ELSE "medium"]

analyzeJobMatch(reply) ==
    IF ~reply.ok THEN Thrown
    ELSE LET parsed == JSONparse(reply) IN
         IF parsed.threw THEN Thrown
         ELSE LET matchData == parsed.value
                  gaps == slice(OrElse(JGet(matchData, "gaps"), JArr(<<>>)).items,
                                MaxGapsKept)
              IN
              \* gap.category on a null item is a TypeError
              IF \E i \in 1..Len(gaps) : gaps[i].t \in {"null", "undefined"}
              THEN Thrown
              ELSE Returned(
                [alignmentScore |->
                    clamp(MaxAlignment, JGet(matchData, "alignmentScore")),
                 alignmentRationale |->
                    OrElse(JGet(matchData, "alignmentRationale"), JStr(NoRationale)).v,
                 gaps |-> [i \in 1..Len(gaps) |-> gapOf(gaps[i])],
                 strengths |->
                    slice(OrElse(JGet(matchData, "strengths"), JArr(<<>>)).items,
                          MaxStrengths),
                 recommendations |->
                    slice(OrElse(JGet(matchData, "recommendations"), JArr(<<>>)).items,
                          MaxRecommendations)])

VerdictPlaceholder == "Unable to generate verdict at this time."

(* bug: shouldApply is read with JavaScript's truthiness, so null, 0 and a   *)
(* missing field advise against applying                                    *)
FinalVerdictByTruthiness(reply) ==
    IF ~reply.ok THEN Thrown
    ELSE LET parsed == JSONparse(reply) IN
         IF parsed.threw THEN Thrown
         ELSE LET verdictData == parsed.value IN
              Returned([verdict |-> OrElse(JGet(verdictData, "verdict"),
                                           JStr(VerdictPlaceholder)).v,
                        shouldApply |-> ~Falsy(JGet(verdictData, "shouldApply"))])

generateFinalVerdict(reply) ==
    IF ~reply.ok THEN Thrown
    ELSE LET parsed == JSONparse(reply) IN
         IF parsed.threw THEN Thrown
         ELSE LET verdictData == parsed.value IN
              Returned([verdict |-> OrElse(JGet(verdictData, "verdict"),
                                           JStr(VerdictPlaceholder)).v,
                        shouldApply |-> JGet(verdictData, "shouldApply") # JBool(FALSE)])

SEP == "===SEPARATOR==="
Whitespace == {" "}

(* fullResponse.indexOf(separator): the first position, 0 when there is none *)
(* bug: the position of the last occurrence *)
LastIndexOf(text, token) ==
    IF \E i \in 1..Len(text) : text[i] = token
    THEN CHOOSE i \in 1..Len(text) :
            text[i] = token /\ \A j \in (i + 1)..Len(text) : text[j] # token
    ELSE 0

indexOf(text, token) ==
    IF \E i \in 1..Len(text) : text[i] = token
    THEN CHOOSE i \in 1..Len(text) :
            text[i] = token /\ \A j \in 1..(i - 1) : text[j] # token
    ELSE 0

(* String.prototype.trim *)
RECURSIVE trimStart(_)
trimStart(text) ==
    IF text # <<>> /\ Head(text) \in Whitespace THEN trimStart(Tail(text)) ELSE text

RECURSIVE trimEnd(_)
trimEnd(text) ==
    IF text # <<>> /\ text[Len(text)] \in Whitespace
    THEN trimEnd(SubSeq(text, 1, Len(text) - 1)) ELSE text

trim(text) == trimEnd(trimStart(text))

ChangesPlaceholder == <<"Unable to generate changes summary">>

TextReply(text) == [ok |-> TRUE, text |-> text]
TextError == [ok |-> FALSE, text |-> <<>>]

(* bug: the fallback trims the text *)
TailoredResumeTrimmingFallback(reply) ==
    IF ~reply.ok THEN Thrown
    ELSE LET fullResponse == reply.text
             separatorIndex == indexOf(fullResponse, SEP)
         IN  IF separatorIndex = 0
             THEN Returned([changesSummary |-> ChangesPlaceholder,
                            resumeMarkdown |-> trim(fullResponse)])
             ELSE Returned([changesSummary |->
                                trim(SubSeq(fullResponse, 1, separatorIndex - 1)),
                            resumeMarkdown |->
                                trim(SubSeq(fullResponse, separatorIndex + 1,
                                            Len(fullResponse)))])

(* reply.text is the token sequence of the free-text answer *)
generateTailoredResume(reply) ==
    IF ~reply.ok THEN Thrown
    ELSE LET fullResponse == reply.text
             separatorIndex == indexOf(fullResponse, SEP)
         IN  IF separatorIndex = 0
             THEN Returned([changesSummary |-> ChangesPlaceholder,
                            resumeMarkdown |-> fullResponse])
             ELSE Returned([changesSummary |->
                                trim(SubSeq(fullResponse, 1, separatorIndex - 1)),
                            resumeMarkdown |->
                                trim(SubSeq(fullResponse, separatorIndex + 1,
                                            Len(fullResponse)))])

----------------------------------------------------------------------------
(* Request bodies and provider replies the model draws from *)

RawGap == JObj([category |-> JStr("skill"), description |-> JStr("d"),
                severity |-> JStr("high")])

(* the reply of the job-match analysis with n gaps and the given score *)
JobMatchReply(n, score) ==
    JsonReply([alignmentScore |-> score,
               alignmentRationale |-> JStr("r"),
               gaps |-> JArr([i \in 1..n |-> RawGap]),
               strengths |-> JArr(<<>>),
               recommendations |-> JArr(<<>>)])

(* raw alignment scores: below, inside and above the range *)
AlignmentValues == {JNum(-5), JNum(57), JNum(140)}

(* the replies the pipeline draws from: the score varies with the gaps *)
JobMatchReplies ==
    {ProviderError} \cup
    {JobMatchReply(n, IF n = 0 THEN JNum(-5) ELSE IF n = 1 THEN JNum(57) ELSE JNum(140)) :
        n \in 0..MaxGaps}

(* ... and the replies of the analysis specification: every score, no gaps *)
JobMatchScoreReplies ==
    {ProviderError, InvalidReply, EmptyReply}
        \cup {JobMatchReply(0, score) : score \in AlignmentValues \cup {JNull}}

Response(i, level) == [gapIndex |-> i, proficiencyLevel |-> level]

(* one response per gap, in index order *)
CompleteBodies(n) ==
    {[k \in 1..n |-> Response(k - 1, f[k])] : f \in [1..n -> {"none", "advanced"}]}

(* ... all with the same level *)
UniformBodies(n) ==
    {[k \in 1..n |-> Response(k - 1, level)] : level \in {"none", "advanced"}}

BaseBody(n) == [k \in 1..n |-> Response(k - 1, "advanced")]

Reverse(s) == [k \in 1..Len(s) |-> s[Len(s) + 1 - k]]

Without(s, k) == [j \in 1..(Len(s) - 1) |-> IF j < k THEN s[j] ELSE s[j + 1]]

(* a response that is wrong for a JobMatch of n gaps, or a duplicate *)
OddResponses(n) ==
    {Response(i, "advanced") : i \in {0, n, FarIndex}}
        \cup {Response(0, "expert")}

(* the well-formed lists and every one-defect variant of the base list *)
AnyBodies(n) ==
    CompleteBodies(n)
        \cup {Reverse(BaseBody(n))}
        \cup {Without(BaseBody(n), k) : k \in 1..n}
        \cup {[BaseBody(n) EXCEPT ![k] = r] : k \in 1..n, r \in OddResponses(n)}
        \cup {Append(BaseBody(n), r) : r \in OddResponses(n)}

(* the lists the pipeline specification submits *)
SubmitBodies(n) ==
    UniformBodies(n) \cup {Append(BaseBody(n), Response(n, "advanced"))}

VerdictReplies ==
    {ProviderError, InvalidReply,
     JsonReply([verdict |-> JStr("v1"), shouldApply |-> JBool(TRUE)]),
     JsonReply([verdict |-> JStr("v1"), shouldApply |-> JBool(FALSE)])}

(* what the model may put in shouldApply and in verdict; "missing" leaves the *)
(* field out of the object                                                    *)
ShouldApplyValues ==
    {JBool(TRUE), JBool(FALSE), JNull, JStr("false"), JNum(0), Undefined}
VerdictValues == {JStr("v1"), JStr(""), JNull, Undefined}

(* the JSON object with the fields that are not undefined *)
ObjectOf(fields) ==
    [name \in {f \in DOMAIN fields : fields[f].t # "undefined"} |-> fields[name]]

VerdictShapeReplies ==
    {JsonReply(ObjectOf([verdict |-> v, shouldApply |-> a])) :
        v \in VerdictValues, a \in ShouldApplyValues}

TailoredReplies ==
    {TextError,
     TextReply(<<"summary", " ", SEP, " ", "# resume">>),
     TextReply(<<"# resume">>)}

(* the reply of the resume analysis *)
AnalysisReply(completeness, sections) ==
    JsonReply([completenessScore |-> completeness,
               completenessRationale |-> JStr("r"),
               sectionScores |-> sections,
               suggestions |-> JArr(<<>>)])

SectionNames == {"summary", "education", "experience", "other"}

(* section scores all 3 but one *)
SectionsWith(name, j) ==
    JObj([k \in SectionNames |-> IF k = name THEN j ELSE JNum(3)])

(* raw scores: missing, below, at the ends of, inside and above the range *)
CompletenessValues == {Undefined, JNum(-5), JNum(0), JNum(57), JNum(100), JNum(140)}
SectionValues == {JNull, JNum(-1), JNum(0), JNum(5), JNum(6)}

AnalysisReplies ==
    {ProviderError, InvalidReply, EmptyReply}
        \cup {AnalysisReply(c, SectionsWith("summary", JNum(3))) : c \in CompletenessValues}
        \cup {AnalysisReply(JNum(57), SectionsWith(name, j)) :
                name \in SectionNames, j \in SectionValues}
        \cup {AnalysisReply(JNum(57), Undefined)}

Users == {"u1", "u2"}
ResumeIds == {"r1", "r2"}

(* the users who have logged in, as createUser stores them *)
StoredUsers ==
    [id \in Users |-> [username |-> IF id = "u1" THEN "ann" ELSE "bob", id |-> id]]

(* a resume per user, as createResume stores it *)
StoredResumes ==
    [id \in ResumeIds |->
        [id |-> id, userId |-> IF id = "r1" THEN "u1" ELSE "u2", createdAt |-> Now]]

----------------------------------------------------------------------------
(* Routes.  last records one HTTP exchange: who sent it, the operation,    *)
(* the id in the path, the body, the status and message of the one         *)
(* response, which gateway call was made ("none" when none was), the       *)
(* provider's reply to it, and the JSON of a 200 response.                 *)

Exchange(via, op, id, body, status, reason, llm, reply, out) ==
    [via |-> via, op |-> op, id |-> id, body |-> body, status |-> status,
     reason |-> reason, llm |-> llm, reply |-> reply, out |-> out]

NoExchange == Exchange("", "none", "", None, 0, "", "none", None, None)

(* req.session.userId, kept with the exchange: None when nobody is logged in *)
Session(userId) == Some([userId |-> userId])

(* MemStorage.getAnalysis *)
getAnalysis(id) == IF id \in DOMAIN analyses THEN Some(analyses[id]) ELSE None

(* GET /api/resumes/:id *)
getResumeRoute(userId, id) ==
    LET found == getResume(id) IN
    IF ~IsSome(userId)
    THEN last' = Exchange("api", "getResume", id, Session(userId), 401,
                          "Not authenticated", "none", None, None)
    ELSE IF ~IsSome(found)
    THEN last' = Exchange("api", "getResume", id, Session(userId), 404,
                          "Resume not found", "none", None, None)
    ELSE IF The(found).userId # The(userId)
    THEN last' = Exchange("api", "getResume", id, Session(userId), 403,
                          "Unauthorized", "none", None, None)
    ELSE last' = Exchange("api", "getResume", id, Session(userId), 200, "",
                          "none", None, found)

(* bug: the analysis is sent to whoever is logged in *)
GetAnalysisWithoutOwnerCheck(userId, id) ==
    LET found == getAnalysis(id) IN
    IF ~IsSome(userId)
    THEN last' = Exchange("api", "getAnalysis", id, Session(userId), 401,
                          "Not authenticated", "none", None, None)
    ELSE IF ~IsSome(found)
    THEN last' = Exchange("api", "getAnalysis", id, Session(userId), 404,
                          "Analysis not found", "none", None, None)
    ELSE last' = Exchange("api", "getAnalysis", id, Session(userId), 200, "",
                          "none", None, found)

(* GET /api/analyses/:id *)
getAnalysisRoute(userId, id) ==
    LET found == getAnalysis(id) IN
    IF ~IsSome(userId)
    THEN last' = Exchange("api", "getAnalysis", id, Session(userId), 401,
                          "Not authenticated", "none", None, None)
    ELSE IF ~IsSome(found)
    THEN last' = Exchange("api", "getAnalysis", id, Session(userId), 404,
                          "Analysis not found", "none", None, None)
    ELSE LET resume == getResume(The(found).resumeId) IN
         IF ~IsSome(resume) \/ The(resume).userId # The(userId)
         THEN last' = Exchange("api", "getAnalysis", id, Session(userId), 403,
                               "Unauthorized", "none", None, None)
         ELSE last' = Exchange("api", "getAnalysis", id, Session(userId), 200, "",
                               "none", None, found)

(* bug: a failed analysis is stored with default scores *)
AnalyzeResumeStoringOnFailure(userId, id, reply) ==
    LET found == getResume(id) IN
    IF ~IsSome(userId)
    THEN /\ last' = Exchange("api", "analyze", id, Session(userId), 401, "Not authenticated",
                             "none", None, None)
         /\ UNCHANGED analyses
    ELSE IF ~IsSome(found)
    THEN /\ last' = Exchange("api", "analyze", id, Session(userId), 404, "Resume not found",
                             "none", None, None)
         /\ UNCHANGED analyses
    ELSE IF The(found).userId # The(userId)
    THEN /\ last' = Exchange("api", "analyze", id, Session(userId), 403, "Unauthorized",
                             "none", None, None)
         /\ UNCHANGED analyses
    ELSE LET resume == The(found)
             analysisResult == analyzeResume(reply)
             value == IF analysisResult.threw
                      THEN analyzeResume(EmptyReply).value ELSE analysisResult.value
             next == createAnalysis(analyses, FreshAnalysisId,
                        [resumeId |-> resume.id,
                         completenessScore |-> value.completenessScore,
                         completenessRationale |-> value.completenessRationale,
                         sectionScores |-> value.sectionScores,
                         suggestions |-> value.suggestions])
         IN  /\ analyses' = next
             /\ last' = IF analysisResult.threw
                        THEN Exchange("api", "analyze", id, Session(userId), 500,
                                      "Failed to analyze resume", "analysis",
                                      Some(reply), None)
                        ELSE Exchange("api", "analyze", id, Session(userId), 200, "", "analysis",
                                      Some(reply), Some(next[FreshAnalysisId]))

(* POST /api/resumes/:id/analyze, userId being req.session.userId *)
analyzeResumeRoute(userId, id, reply) ==
    LET found == getResume(id) IN
    IF ~IsSome(userId)
    THEN /\ last' = Exchange("api", "analyze", id, Session(userId), 401, "Not authenticated",
                             "none", None, None)
         /\ UNCHANGED analyses
    ELSE IF ~IsSome(found)
    THEN /\ last' = Exchange("api", "analyze", id, Session(userId), 404, "Resume not found",
                             "none", None, None)
         /\ UNCHANGED analyses
    ELSE IF The(found).userId # The(userId)
    THEN /\ last' = Exchange("api", "analyze", id, Session(userId), 403, "Unauthorized",
                             "none", None, None)
         /\ UNCHANGED analyses
    ELSE LET resume == The(found)
             analysisResult == analyzeResume(reply)
         IN  IF analysisResult.threw
             THEN /\ last' = Exchange("api", "analyze", id, Session(userId), 500,
                                      "Failed to analyze resume", "analysis",
                                      Some(reply), None)
                  /\ UNCHANGED analyses
             ELSE LET next == createAnalysis(analyses, FreshAnalysisId,
                        [resumeId |-> resume.id,
                         completenessScore |-> analysisResult.value.completenessScore,
                         completenessRationale |->
                            analysisResult.value.completenessRationale,
                         sectionScores |-> analysisResult.value.sectionScores,
                         suggestions |-> analysisResult.value.suggestions])
                  IN  /\ analyses' = next
                      /\ last' = Exchange("api", "analyze", id, Session(userId), 200, "",
                                          "analysis", Some(reply),
                                          Some(next[FreshAnalysisId]))

(* The job-match routes.  Their handlers are not among the sources; they   *)
(* are written from the specification's section 4.4: the preconditions of  *)
(* each stage, then the gateway call, then the storage update.             *)

(* POST /api/job-matches/analyze *)
analyzeJobMatchRoute(via, reply) ==
    LET result == analyzeJobMatch(reply) IN
    IF result.threw
    THEN /\ last' = Exchange(via, "create", "", None, 500, "analysis failed",
                             "jobmatch", Some(reply), None)
         /\ UNCHANGED jobMatches
    ELSE LET id == FreshJobMatchId
             next == createJobMatch(jobMatches, id,
                        [resumeId |-> "r1",
                         jobDescription |-> "jd",
                         alignmentScore |-> result.value.alignmentScore,
                         alignmentRationale |-> result.value.alignmentRationale,
                         gaps |-> result.value.gaps,
                         strengths |-> result.value.strengths,
                         recommendations |-> result.value.recommendations])
         IN  /\ jobMatches' = next
             /\ last' = Exchange(via, "create", id, None, 200, "", "jobmatch",
                                 Some(reply), Some(next[id]))

(* bug: only "every gap has an answer" and the enum are checked *)
RefusalOfCoverageOnly(jobMatch, gapResponses) ==
    LET n == Len(jobMatch.gaps) IN
    CASE \E k \in 1..Len(gapResponses) :
            gapResponses[k].proficiencyLevel \notin PROFICIENCY_LEVELS
            -> "invalid proficiency level"
      [] \E i \in 0..(n - 1) :
            \A k \in 1..Len(gapResponses) : gapResponses[k].gapIndex # i
            -> "missing response for a gap"
      [] OTHER -> ""

(* bug: the proficiency level is not checked against the enum *)
RefusalOfNoEnum(jobMatch, gapResponses) ==
    LET n == Len(jobMatch.gaps) IN
    CASE \E k \in 1..Len(gapResponses) : gapResponses[k].gapIndex \notin 0..(n - 1)
            -> "gap index out of range"
      [] \E i \in 0..(n - 1) :
            \A k \in 1..Len(gapResponses) : gapResponses[k].gapIndex # i
            -> "missing response for a gap"
      [] Len(gapResponses) > n
            -> "more responses than gaps"
      [] OTHER -> ""

(* the reason a list of gap responses is refused, "" when it is accepted *)
RefusalOf(jobMatch, gapResponses) ==
    LET n == Len(jobMatch.gaps) IN
    CASE \E k \in 1..Len(gapResponses) : gapResponses[k].gapIndex \notin 0..(n - 1)
            -> "gap index out of range"
      [] \E k \in 1..Len(gapResponses) :
            gapResponses[k].proficiencyLevel \notin PROFICIENCY_LEVELS
            -> "invalid proficiency level"
      [] \E i \in 0..(n - 1) :
            \A k \in 1..Len(gapResponses) : gapResponses[k].gapIndex # i
            -> "missing response for a gap"
      [] Len(gapResponses) > n
            -> "more responses than gaps"
      [] OTHER -> ""

(* POST /api/job-matches/:id/submit-responses *)
submitResponsesRoute(via, id, body, reply) ==
    LET found == getJobMatch(id) IN
    IF ~IsSome(found)
    THEN /\ last' = Exchange(via, "submit", id, Some(body), 404, "not found",
                             "none", None, None)
         /\ UNCHANGED jobMatches
    ELSE LET jobMatch == The(found)
             refusal == RefusalOf(jobMatch, body)
             result == generateFinalVerdict(reply)
         IN  IF refusal # ""
             THEN /\ last' = Exchange(via, "submit", id, Some(body), 400, refusal,
                                      "none", None, None)
                  /\ UNCHANGED jobMatches
             ELSE IF result.threw
             THEN /\ last' = Exchange(via, "submit", id, Some(body), 500,
                                      "verdict failed", "verdict", Some(reply), None)
                  /\ UNCHANGED jobMatches
             ELSE /\ jobMatches' = updateJobMatchResponses(jobMatches, id, body,
                                        result.value.verdict, result.value.shouldApply)
                  /\ last' = Exchange(via, "submit", id, Some(body), 200, "",
                                      "verdict", Some(reply), Some(result.value))

(* the stage's precondition: gap responses must already exist *)
ResumeRefusalOf(jobMatch) ==
    IF ~IsSome(Field(jobMatch, "gapResponses")) THEN "gap responses required" ELSE ""

(* POST /api/job-matches/:id/generate-resume *)
generateResumeRoute(via, id, reply) ==
    LET found == getJobMatch(id) IN
    IF ~IsSome(found)
    THEN /\ last' = Exchange(via, "generate", id, None, 404, "not found", "none",
                             None, None)
         /\ UNCHANGED jobMatches
    ELSE LET jobMatch == The(found)
             refusal == ResumeRefusalOf(jobMatch)
             result == generateTailoredResume(reply)
         IN  IF refusal # ""
             THEN /\ last' = Exchange(via, "generate", id, None, 400, refusal,
                                      "none", None, None)
                  /\ UNCHANGED jobMatches
             ELSE IF result.threw
             THEN /\ last' = Exchange(via, "generate", id, None, 500,
                                      "generation failed", "tailored", Some(reply),
                                      None)
                  /\ UNCHANGED jobMatches
             ELSE /\ jobMatches' = updateJobMatchResume(jobMatches, id,
                                        result.value.resumeMarkdown)
                  /\ last' = Exchange(via, "generate", id, None, 200, "", "tailored",
                                      Some(reply), Some(result.value))

----------------------------------------------------------------------------
(* The JobMatchResults page.  jobMatch is the page's query of               *)
(* /api/job-matches/:id, read here from storage at the time of each event;  *)
(* gapResponses is the component's useState record, index -> level.         *)

NoPage == [id |-> "", gapResponses |-> <<>>]

(* bug: some instead of every *)
SomeGapAnswered(jobMatch, gapResponses) ==
    \E index \in 0..(Len(jobMatch.gaps) - 1) :
        index \in DOMAIN gapResponses /\ gapResponses[index] # ""

allGapsAnswered(jobMatch, gapResponses) ==
    \A index \in 0..(Len(jobMatch.gaps) - 1) :
        index \in DOMAIN gapResponses /\ gapResponses[index] # ""

hasSubmittedResponses(jobMatch) ==
    /\ IsSome(Field(jobMatch, "gapResponses"))
    /\ Len(jobMatch.gapResponses) > 0

hasFinalVerdict(jobMatch) ==
    IsSome(Field(jobMatch, "finalVerdict")) /\ jobMatch.finalVerdict # ""

hasGeneratedResume(jobMatch) ==
    /\ IsSome(Field(jobMatch, "tailoredResumeContent"))
    /\ jobMatch.tailoredResumeContent # <<>>

(* the Submit Responses button is rendered and enabled *)
SubmitOffered ==
    /\ page.id \in DOMAIN jobMatches
    /\ ~hasSubmittedResponses(jobMatches[page.id])
    /\ allGapsAnswered(jobMatches[page.id], page.gapResponses)

(* the Generate Tailored Resume button is rendered *)
GenerateOffered ==
    /\ page.id \in DOMAIN jobMatches
    /\ hasFinalVerdict(jobMatches[page.id])
    /\ ~hasGeneratedResume(jobMatches[page.id])

(* setGapResponses((prev) => ({ ...prev, [gapIndex]: value })) *)
handleProficiencyChange(prev, gapIndex, value) ==
    [k \in DOMAIN prev \cup {gapIndex} |-> IF k = gapIndex THEN value ELSE prev[k]]

(* Object.entries of a record with integer keys: ascending key order *)
entries(rec) ==
    LET keys == CHOOSE s \in [1..Cardinality(DOMAIN rec) -> DOMAIN rec] :
                    \A i, j \in 1..Cardinality(DOMAIN rec) : i < j => s[i] < s[j]
    IN  [k \in 1..Cardinality(DOMAIN rec) |-> <<keys[k], rec[keys[k]]>>]

(* the list handleSubmitResponses hands to the mutation *)
handleSubmitResponses(gapResponses) ==
    LET es == entries(gapResponses) IN
    [k \in 1..Len(es) |-> Response(es[k][1], es[k][2])]

----------------------------------------------------------------------------
(* The pipeline: requests of any HTTP client *)

Init ==
    /\ jobMatches = <<>>
    /\ resumes = StoredResumes
    /\ analyses = <<>>
    /\ last = NoExchange
    /\ page = NoPage
    /\ users = StoredUsers
    /\ inflight = <<>>

CreateJobMatch ==
    /\ DOMAIN jobMatches # JobMatchIds
    /\ \E reply \in JobMatchReplies : analyzeJobMatchRoute("api", reply)
    /\ UNCHANGED <<resumes, analyses, page, users, inflight>>

SubmitResponses ==
    /\ \E id \in JobMatchIds :
         LET n == IF id \in DOMAIN jobMatches THEN Len(jobMatches[id].gaps) ELSE 0 IN
         \E body \in SubmitBodies(n), reply \in VerdictReplies :
            submitResponsesRoute("api", id, body, reply)
    /\ UNCHANGED <<resumes, analyses, page, users, inflight>>

GenerateResume ==
    /\ \E id \in JobMatchIds, reply \in TailoredReplies :
            generateResumeRoute("api", id, reply)
    /\ UNCHANGED <<resumes, analyses, page, users, inflight>>

Next == CreateJobMatch \/ SubmitResponses \/ GenerateResume

Spec == Init /\ [][Next]_vars

----------------------------------------------------------------------------
(* One JobMatch, its results page open, and requests of any list *)

InitPage ==
    \E n \in 0..MaxGaps :
        /\ jobMatches = createJobMatch(<<>>, "jm1",
                            [resumeId |-> "r1", jobDescription |-> "jd",
                             alignmentScore |-> 57, alignmentRationale |-> "r",
                             gaps |-> [i \in 1..n |-> gapOf(RawGap)],
                             strengths |-> <<>>, recommendations |-> <<>>])
        /\ resumes = StoredResumes
        /\ analyses = <<>>
        /\ last = NoExchange
        /\ page = [id |-> "jm1", gapResponses |-> <<>>]
        /\ users = StoredUsers
        /\ inflight = <<>>

(* the page is loaded again: useState({}) *)
ReloadPage ==
    /\ page.id \in DOMAIN jobMatches
    /\ page' = [page EXCEPT !.gapResponses = <<>>]
    /\ UNCHANGED <<jobMatches, resumes, analyses, last, users, inflight>>

(* a Select of a gap, enabled until responses are submitted *)
PickProficiency ==
    /\ page.id \in DOMAIN jobMatches
    /\ ~hasSubmittedResponses(jobMatches[page.id])
    /\ \E index \in 0..(Len(jobMatches[page.id].gaps) - 1), value \in PickedLevels :
            page' = [page EXCEPT !.gapResponses =
                        handleProficiencyChange(@, index, value)]
    /\ UNCHANGED <<jobMatches, resumes, analyses, last, users, inflight>>

ClickSubmit ==
    /\ SubmitOffered
    /\ \E reply \in VerdictReplies :
            submitResponsesRoute("page", page.id,
                                 handleSubmitResponses(page.gapResponses), reply)
    /\ UNCHANGED <<resumes, analyses, page, users, inflight>>

ClickGenerate ==
    /\ GenerateOffered
    /\ \E reply \in TailoredReplies : generateResumeRoute("page", page.id, reply)
    /\ UNCHANGED <<resumes, analyses, page, users, inflight>>

SubmitAny ==
    /\ \E body \in AnyBodies(Len(jobMatches["jm1"].gaps)), reply \in VerdictReplies :
            submitResponsesRoute("api", "jm1", body, reply)
    /\ UNCHANGED <<resumes, analyses, page, users, inflight>>

NextPage ==
    ReloadPage \/ PickProficiency \/ ClickSubmit \/ ClickGenerate \/ SubmitAny
        \/ GenerateResume

SpecPage == InitPage /\ [][NextPage]_vars

----------------------------------------------------------------------------
(* The analysis routes: resume analyses and job-match analyses of any score *)

AnalyzeResume ==
    /\ DOMAIN analyses # AnalysisIds
    /\ \E userId \in {None} \cup {Some(u) : u \in Users},
          id \in ResumeIds \cup {"r9"},
          reply \in AnalysisReplies :
            analyzeResumeRoute(userId, id, reply)
    /\ UNCHANGED <<jobMatches, resumes, page, users, inflight>>

AnalyzeJobMatch ==
    /\ jobMatches = <<>>
    /\ \E reply \in JobMatchScoreReplies : analyzeJobMatchRoute("api", reply)
    /\ UNCHANGED <<resumes, analyses, page, users, inflight>>

GetResume ==
    /\ \E userId \in {None} \cup {Some(u) : u \in Users}, id \in ResumeIds \cup {"r9"} :
            getResumeRoute(userId, id)
    /\ UNCHANGED <<jobMatches, resumes, analyses, page, users, inflight>>

GetAnalysis ==
    /\ \E userId \in {None} \cup {Some(u) : u \in Users}, id \in AnalysisIds :
            getAnalysisRoute(userId, id)
    /\ UNCHANGED <<jobMatches, resumes, analyses, page, users, inflight>>

NextAnalyze == AnalyzeResume \/ AnalyzeJobMatch \/ GetResume \/ GetAnalysis

SpecAnalyze == Init /\ [][NextAnalyze]_vars

----------------------------------------------------------------------------
(* The gateway functions on their own: every call is one step that records *)
(* the provider's reply and what the function gave its caller.             *)

(* roadmapData.x || [] *)
listOrEmpty(j) == OrElse(j, JArr(<<>>)).items

generateCareerRoadmap(reply) ==
    IF ~reply.ok THEN Thrown
    ELSE LET parsed == JSONparse(reply) IN
         IF parsed.threw THEN Thrown
         ELSE LET roadmapData == parsed.value IN
              Returned([currentGaps |-> listOrEmpty(JGet(roadmapData, "currentGaps")),
                        skillsToAcquire |->
                            listOrEmpty(JGet(roadmapData, "skillsToAcquire")),
                        actionPlan |-> listOrEmpty(JGet(roadmapData, "actionPlan")),
                        resources |-> listOrEmpty(JGet(roadmapData, "resources")),
                        milestones |-> listOrEmpty(JGet(roadmapData, "milestones"))])

\* the longest list a reply holds: one more than the largest cap
MaxListLen == 9

\* the longest free-text reply, in tokens
MaxTextLen == 3

ItemNames == <<"i1", "i2", "i3", "i4", "i5", "i6", "i7", "i8", "i9", "i10", "i11">>

(* n strings, ascending or descending *)
Strings(n, ascending) ==
    JArr([k \in 1..n |-> JStr(ItemNames[IF ascending THEN k ELSE n + 1 - k])])

(* n raw gaps, told apart by their category *)
RawGaps(n, ascending) ==
    JArr([k \in 1..n |->
            JObj([category |-> JStr(ItemNames[IF ascending THEN k ELSE n + 1 - k]),
                  description |-> JStr("d"),
                  severity |-> JStr("low")])])

ListFields == {"suggestions", "gaps", "strengths", "recommendations"}

(* a reply whose one list field is the given value, the others absent *)
ListReplies ==
    {JsonReply([k \in {field} |-> Strings(n, asc)]) :
        field \in ListFields \ {"gaps"}, n \in 0..MaxListLen, asc \in BOOLEAN}
      \cup {JsonReply([gaps |-> RawGaps(n, asc)]) : n \in 0..MaxListLen, asc \in BOOLEAN}
      \cup {JsonReply([k \in {field} |-> JNull]) : field \in ListFields}

(* raw severities: the three levels, other strings, other types, none *)
SeverityValues ==
    {JStr("high"), JStr("medium"), JStr("low"), JStr("urgent"), JStr("High"), JStr(""),
     JNum(1), JNull, Undefined}

GapWithSeverity(j) ==
    IF j.t = "undefined"
    THEN JObj([category |-> JStr("skill"), description |-> JStr("d")])
    ELSE JObj([category |-> JStr("skill"), description |-> JStr("d"), severity |-> j])

SeverityReplies ==
    {JsonReply([gaps |-> JArr(<<GapWithSeverity(j), GapWithSeverity(JStr("high"))>>)]) :
        j \in SeverityValues}

(* replies that are not JSON, or JSON without the required fields *)
DefectiveReplies ==
    {InvalidReply, EmptyReply, JsonReply(<<>>),
     JsonReply([completenessScore |-> JNum(57)]),
     JsonReply([verdict |-> JStr("v1")]),
     JsonReply([shouldApply |-> JBool(FALSE)]),
     JsonReply([currentGaps |-> Strings(2, TRUE)])}

GatewayReplies ==
    {ProviderError} \cup ListReplies \cup SeverityReplies \cup DefectiveReplies

TextTokens == {"a", " ", SEP}

(* every free text of at most MaxTextLen tokens *)
Texts == UNION {[1..n -> TextTokens] : n \in 0..MaxTextLen}

GatewayTextReplies == {TextError} \cup {TextReply(text) : text \in Texts}

(* one call: what went in, and what came out or that it threw *)
Call(task, reply, result) ==
    Exchange("gateway", task, "", None, 0, IF result.threw THEN "threw" ELSE "",
             task, Some(reply), IF result.threw THEN None ELSE Some(result.value))

CallAnalyzeResume ==
    /\ \E reply \in GatewayReplies : last' = Call("analyzeResume", reply, analyzeResume(reply))
    /\ UNCHANGED <<jobMatches, resumes, analyses, page, users, inflight>>

CallAnalyzeJobMatch ==
    /\ \E reply \in GatewayReplies :
            last' = Call("analyzeJobMatch", reply, analyzeJobMatch(reply))
    /\ UNCHANGED <<jobMatches, resumes, analyses, page, users, inflight>>

CallFinalVerdict ==
    /\ \E reply \in GatewayReplies \cup VerdictReplies \cup VerdictShapeReplies :
            last' = Call("generateFinalVerdict", reply, generateFinalVerdict(reply))
    /\ UNCHANGED <<jobMatches, resumes, analyses, page, users, inflight>>

CallCareerRoadmap ==
    /\ \E reply \in GatewayReplies :
            last' = Call("generateCareerRoadmap", reply, generateCareerRoadmap(reply))
    /\ UNCHANGED <<jobMatches, resumes, analyses, page, users, inflight>>

CallTailoredResume ==
    /\ \E reply \in GatewayTextReplies :
            last' = Call("generateTailoredResume", reply, generateTailoredResume(reply))
    /\ UNCHANGED <<jobMatches, resumes, analyses, page, users, inflight>>

NextGateway ==
    CallAnalyzeResume \/ CallAnalyzeJobMatch \/ CallFinalVerdict \/ CallCareerRoadmap
        \/ CallTailoredResume

SpecGateway == Init /\ [][NextGateway]_vars

----------------------------------------------------------------------------
(* Text extraction.  An extracted text is held by its lengths: lead        *)
(* whitespace characters, then body characters that begin and end with a   *)
(* non-whitespace character, then trail whitespace characters; a text of   *)
(* whitespace only has body = 0 and trail = 0.  A MIME kind is the pair    *)
(* <<type, subtype>>.  A buffer is its length, whether its first five      *)
(* bytes are %PDF-, the text its bytes hold, and the message of the error  *)
(* the parsing library raises on it ("" when it raises none).  An error    *)
(* message is the sequence of the strings it is concatenated from.         *)

Text(lead, body, trail) == [lead |-> lead, body |-> body, trail |-> trail]
EmptyText == Text(0, 0, 0)
TextLength(text) == text.lead + text.body + text.trail

(* text + "\n" *)
appendNewline(text) ==
    IF text.body = 0 THEN Text(text.lead + 1, 0, 0)
    ELSE Text(text.lead, text.body, text.trail + 1)

(* String.prototype.trim on an extracted text *)
trimText(text) == Text(0, text.body, 0)

MinPdfBytes == 100

TooSmallMessage == "File is too small to be a valid PDF"
NotPdfMessage == "File is not a valid PDF format. Please upload a real PDF file, not a text file with a .pdf extension."
EmptyPdfMessage == "PDF appears to be empty or contains no extractable text. If your resume is image-based, try uploading it as PNG or JPG instead."
UnreadablePdfMessage == "Unable to read PDF file. The file may be corrupted, password-protected, or in an unsupported format. Please try: (1) saving a new copy of your PDF, or (2) uploading as an image (PNG/JPG)."
PdfFailurePrefix == "Failed to extract text from PDF: "
EmptyDocxMessage == "DOCX appears to be empty or contains no extractable text"
DocxFailurePrefix == "Failed to extract text from DOCX: "
EmptyImageMessage == "Image appears to contain no readable text"
ImageFailurePrefix == "Failed to extract text from image using OCR: "
UnsupportedMessage == "Unsupported file type"

(* messages of the parsing libraries *)
LibraryMessages == {"Invalid PDF structure.", "No password given", "Unexpected end of file"}

(* the substrings the catch blocks look for, as each string holds them *)
Fragments(part) ==
    CASE part = TooSmallMessage -> {"too small"}
      [] part = NotPdfMessage -> {"not a valid PDF format"}
      [] part = EmptyPdfMessage -> {"no extractable text"}
      [] part = EmptyDocxMessage -> {"no extractable text"}
      [] part = EmptyImageMessage -> {"no readable text"}
      [] part = "Invalid PDF structure." -> {"invalid"}
      [] part = "No password given" -> {"password"}
      [] OTHER -> {}

(* error.message?.includes(needle), after toLowerCase where the code lowers *)
includes(message, needle) ==
    \E k \in 1..Len(message) : needle \in Fragments(message[k])

Extracted(text) == [threw |-> FALSE, text |-> text, message |-> <<>>]
Failed(message) == [threw |-> TRUE, text |-> EmptyText, message |-> message]

(* bug: the "too small" error is not passed through *)
PdfCatchWrappingTooSmall(message) ==
    IF includes(message, "not a valid PDF format") THEN Failed(message)
    ELSE IF includes(message, "no extractable text") THEN Failed(message)
    ELSE IF \/ includes(message, "invalid") \/ includes(message, "corrupt")
            \/ includes(message, "password") \/ includes(message, "encrypted")
    THEN Failed(<<UnreadablePdfMessage>>)
    ELSE Failed(<<PdfFailurePrefix>> \o message)

(* the catch block of extractTextFromPDF *)
pdfCatch(message) ==
    IF includes(message, "not a valid PDF format") THEN Failed(message)
    ELSE IF includes(message, "no extractable text") THEN Failed(message)
    ELSE IF includes(message, "too small") THEN Failed(message)
    ELSE IF \/ includes(message, "invalid") \/ includes(message, "corrupt")
            \/ includes(message, "password") \/ includes(message, "encrypted")
    THEN Failed(<<UnreadablePdfMessage>>)
    ELSE Failed(<<PdfFailurePrefix>> \o message)

(* bug: the header is looked at only after the document is loaded *)
ExtractPdfHeaderLast(buffer) ==
    IF buffer.length < MinPdfBytes THEN pdfCatch(<<TooSmallMessage>>)
    ELSE IF buffer.fault # "" THEN pdfCatch(<<buffer.fault>>)
    ELSE IF ~buffer.header THEN pdfCatch(<<NotPdfMessage>>)
    ELSE LET text == trimText(appendNewline(buffer.content)) IN
         IF TextLength(text) = 0 THEN pdfCatch(<<EmptyPdfMessage>>)
         ELSE Extracted(text)

extractTextFromPDF(buffer) ==
    IF buffer.length < MinPdfBytes THEN pdfCatch(<<TooSmallMessage>>)
    ELSE IF ~buffer.header THEN pdfCatch(<<NotPdfMessage>>)
    ELSE IF buffer.fault # "" THEN pdfCatch(<<buffer.fault>>)
    ELSE LET text == trimText(appendNewline(buffer.content)) IN
         IF TextLength(text) = 0 THEN pdfCatch(<<EmptyPdfMessage>>)
         ELSE Extracted(text)

extractTextFromDOCX(buffer) ==
    IF buffer.fault # ""
    THEN IF includes(<<buffer.fault>>, "no extractable text")
         THEN Failed(<<buffer.fault>>)
         ELSE Failed(<<DocxFailurePrefix, buffer.fault>>)
    ELSE LET text == trimText(buffer.content) IN
         IF TextLength(text) = 0 THEN Failed(<<EmptyDocxMessage>>)
         ELSE Extracted(text)

extractTextFromImage(buffer) ==
    IF buffer.fault # ""
    THEN IF includes(<<buffer.fault>>, "no readable text")
         THEN Failed(<<buffer.fault>>)
         ELSE Failed(<<ImageFailurePrefix, buffer.fault>>)
    ELSE LET text == trimText(buffer.content) IN
         IF TextLength(text) = 0 THEN Failed(<<EmptyImageMessage>>)
         ELSE Extracted(text)

PdfKind == <<"application", "pdf">>
DocxKind == <<"application", "vnd.openxmlformats-officedocument.wordprocessingml.document">>
MswordKind == <<"application", "msword">>
PlainKind == <<"text", "plain">>

(* mimeType.startsWith("image/") *)
startsWithImage(mimeType) == mimeType[1] = "image"

(* bug: a buffer that begins with %PDF- is read as a PDF whatever its kind *)
ExtractTextSniffing(buffer, mimeType) ==
    IF mimeType = PdfKind \/ buffer.header THEN extractTextFromPDF(buffer)
    ELSE IF mimeType = DocxKind \/ mimeType = MswordKind THEN extractTextFromDOCX(buffer)
    ELSE IF startsWithImage(mimeType) THEN extractTextFromImage(buffer)
    ELSE IF mimeType = PlainKind THEN Extracted(buffer.content)
    ELSE Failed(<<UnsupportedMessage>>)

extractText(buffer, mimeType) ==
    IF mimeType = PdfKind THEN extractTextFromPDF(buffer)
    ELSE IF mimeType = DocxKind \/ mimeType = MswordKind THEN extractTextFromDOCX(buffer)
    ELSE IF startsWithImage(mimeType) THEN extractTextFromImage(buffer)
    ELSE IF mimeType = PlainKind THEN Extracted(buffer.content)
    ELSE Failed(<<UnsupportedMessage>>)

(* extracted texts: empty, whitespace only, and bodies around the threshold *)
BodyLengths == {1, 49, 50}
Contents ==
    {EmptyText, Text(1, 0, 0), Text(50, 0, 0)}
        \cup {Text(lead, body, trail) :
                lead \in {0, 1}, body \in BodyLengths, trail \in {0, 1}}

BufferLengths == {0, 4, 5, 99, 100, 101}

(* the buffers: every length with every text, header and library outcome;  *)
(* a header needs five bytes                                               *)
Buffers ==
    {b \in [length : BufferLengths \cup {TextLength(c) : c \in Contents},
            header : BOOLEAN,
            content : Contents,
            fault : {""} \cup LibraryMessages] :
        b.header => b.length >= 5}

MimeKinds ==
    {PdfKind, DocxKind, MswordKind, PlainKind,
     <<"image", "png">>, <<"image", "jpeg">>,
     <<"text", "html">>, <<"application", "zip">>, <<"imagex", "png">>}

(* what toString("utf-8") gives is the buffer itself: its length is the    *)
(* text's, and it begins with %PDF- only if the text does                  *)
Decodable(buffer) ==
    /\ buffer.length = TextLength(buffer.content)
    /\ buffer.header => (buffer.content.lead = 0 /\ buffer.content.body >= 5)

(* a buffer and its declared kind, handed to extractText *)
Handed(buffer, mimeType) ==
    Exchange("lib", "extract", "", Some([buffer |-> buffer, mimeType |-> mimeType]), 0,
             "", "none", None, None)

Extraction(buffer, mimeType, result) ==
    Exchange("lib", "extract", "", Some([buffer |-> buffer, mimeType |-> mimeType]), 0,
             IF result.threw THEN "threw" ELSE "", "none", None, Some(result))

InitExtract ==
    /\ jobMatches = <<>>
    /\ resumes = <<>>
    /\ analyses = <<>>
    /\ page = NoPage
    /\ \E buffer \in Buffers, mimeType \in MimeKinds :
          /\ mimeType = PlainKind => Decodable(buffer)
          /\ last = Handed(buffer, mimeType)
    /\ users = StoredUsers
    /\ inflight = <<>>

Extract ==
    /\ last.op = "extract"
    /\ last.out = None
    /\ LET buffer == The(last.body).buffer
           mimeType == The(last.body).mimeType
       IN  last' = Extraction(buffer, mimeType, extractText(buffer, mimeType))
    /\ UNCHANGED <<jobMatches, resumes, analyses, page, users, inflight>>

NextExtract == Extract

SpecExtract == InitExtract /\ [][NextExtract]_vars

----------------------------------------------------------------------------
(* Upload *)

MinTextLength == 50

FreshResumeId == IF "r1" \notin DOMAIN resumes THEN "r1" ELSE "r2"

(* bug: a user's new resume takes the place of the resumes the user had *)
CreateResumeLatestOnly(store, id, insertResume) ==
    LET others == {r \in DOMAIN store : store[r].userId # insertResume.userId}
    IN  [r \in others \cup {id} |->
            IF r = id THEN Spread(insertResume, [id |-> id, createdAt |-> Now])
            ELSE store[r]]

createResume(store, id, insertResume) ==
    MapSet(store, id, Spread(insertResume, [id |-> id, createdAt |-> Now]))

Buffer(length, header, content, fault) ==
    [length |-> length, header |-> header, content |-> content, fault |-> fault]

File(buffer, mimetype) ==
    [buffer |-> buffer, mimetype |-> mimetype, originalname |-> "cv",
     size |-> buffer.length]

(* the files uploaded: one per outcome of extraction and of the length test *)
UploadedFiles ==
    {File(Buffer(101, TRUE, Text(0, 50, 0), ""), PdfKind),
     File(Buffer(101, TRUE, Text(1, 49, 1), ""), PdfKind),
     File(Buffer(101, TRUE, EmptyText, ""), PdfKind),
     File(Buffer(99, TRUE, Text(0, 50, 0), ""), PdfKind),
     File(Buffer(101, TRUE, Text(0, 50, 0), "Invalid PDF structure."), PdfKind),
     File(Buffer(101, FALSE, Text(0, 50, 1), ""), DocxKind),
     File(Buffer(101, FALSE, Text(0, 1, 0), ""), <<"image", "png">>),
     File(Buffer(50, FALSE, Text(0, 50, 0), ""), PlainKind),
     File(Buffer(51, FALSE, Text(1, 49, 1), ""), PlainKind),
     File(Buffer(49, FALSE, Text(0, 49, 0), ""), PlainKind),
     File(Buffer(50, FALSE, Text(50, 0, 0), ""), PlainKind),
     File(Buffer(0, FALSE, EmptyText, ""), PlainKind),
     File(Buffer(101, FALSE, Text(0, 50, 0), ""), <<"application", "zip">>)}

InsufficientTextMessage == "Could not extract sufficient text from the file. Please ensure the file contains readable text."

Upload(status, reason, file, out) ==
    Exchange("api", "upload", "", file, status, reason, "none", None, out)

(* bug: any text that is not empty is stored *)
UploadWithoutLengthCheck(userId, file) ==
    IF ~IsSome(userId)
    THEN /\ last' = Upload(401, "Not authenticated", file, None)
         /\ UNCHANGED resumes
    ELSE IF ~IsSome(file)
    THEN /\ last' = Upload(400, "No file uploaded", file, None)
         /\ UNCHANGED resumes
    ELSE LET result == extractText(The(file).buffer, The(file).mimetype) IN
         IF result.threw
         THEN /\ last' = Upload(500, result.message[1], file, None)
              /\ UNCHANGED resumes
         ELSE IF TextLength(result.text) = 0
         THEN /\ last' = Upload(400, InsufficientTextMessage, file, None)
              /\ UNCHANGED resumes
         ELSE LET id == FreshResumeId
                  next == createResume(resumes, id,
                            [userId |-> The(userId),
                             filename |-> The(file).originalname,
                             filesize |-> The(file).size,
                             mimeType |-> The(file).mimetype,
                             extractedText |-> result.text])
              IN  /\ resumes' = next
                  /\ last' = Upload(200, "", file, Some(next[id]))

(* POST /api/resumes/upload, userId being req.session.userId *)
uploadRoute(userId, file) ==
    IF ~IsSome(userId)
    THEN /\ last' = Upload(401, "Not authenticated", file, None)
         /\ UNCHANGED resumes
    ELSE IF ~IsSome(file)
    THEN /\ last' = Upload(400, "No file uploaded", file, None)
         /\ UNCHANGED resumes
    ELSE LET result == extractText(The(file).buffer, The(file).mimetype) IN
         IF result.threw
         THEN /\ last' = Upload(500, result.message[1], file, None)
              /\ UNCHANGED resumes
         ELSE IF TextLength(result.text) = 0 \/ TextLength(result.text) < MinTextLength
         THEN /\ last' = Upload(400, InsufficientTextMessage, file, None)
              /\ UNCHANGED resumes
         ELSE LET id == FreshResumeId
                  next == createResume(resumes, id,
                            [userId |-> The(userId),
                             filename |-> The(file).originalname,
                             filesize |-> The(file).size,
                             mimeType |-> The(file).mimetype,
                             extractedText |-> result.text])
              IN  /\ resumes' = next
                  /\ last' = Upload(200, "", file, Some(next[id]))

InitUpload ==
    /\ jobMatches = <<>>
    /\ resumes = <<>>
    /\ analyses = <<>>
    /\ last = NoExchange
    /\ page = NoPage
    /\ users = StoredUsers
    /\ inflight = <<>>

UploadResume ==
    /\ DOMAIN resumes # ResumeIds
    /\ \E userId \in {None} \cup {Some(u) : u \in Users},
          file \in {None} \cup {Some(f) : f \in UploadedFiles} :
            uploadRoute(userId, file)
    /\ UNCHANGED <<jobMatches, analyses, page, users, inflight>>

NextUpload == UploadResume

SpecUpload == InitUpload /\ [][NextUpload]_vars

----------------------------------------------------------------------------
(* The storage operations called one after another.  randomUUID() is the     *)
(* first id not in use; the id spaces are bounded by the guards.             *)

FreshUserId == IF "u1" \notin DOMAIN users THEN "u1" ELSE "u2"

(* Array.from(this.users.values()).find(...): the first user, in the order  *)
(* of insertion, with the username                                          *)
getUserByUsername(store, username) ==
    LET hits == {id \in DOMAIN store : store[id].username = username} IN
    IF hits = {} THEN None
    ELSE Some(store[IF "u1" \in hits THEN "u1" ELSE "u2"])

createUser(store, id, insertUser) == MapSet(store, id, Spread(insertUser, [id |-> id]))

Usernames == {"ann", "bob"}

(* the arguments the operations are called with *)
ResumeInserts == {[userId |-> u, extractedText |-> "text"] : u \in Users}
AnalysisInsert ==
    [resumeId |-> "r1", completenessScore |-> 57, completenessRationale |-> "r",
     sectionScores |-> <<>>, suggestions |-> <<>>]
JobMatchInsert ==
    [resumeId |-> "r1", jobDescription |-> "jd", alignmentScore |-> 57,
     alignmentRationale |-> "r", gaps |-> <<gapOf(RawGap)>>,
     strengths |-> <<>>, recommendations |-> <<>>]
ResponseArgs ==
    {[gapResponses |-> <<Response(0, "none")>>, finalVerdict |-> "v1",
      shouldApply |-> TRUE],
     [gapResponses |-> <<Response(0, "advanced")>>, finalVerdict |-> "v2",
      shouldApply |-> FALSE]}
ResumeContents == {"c1", "c2"}

(* a storage operation, kept in last: which one, and on which id *)
StorageCall(op, id) == Exchange("storage", op, id, None, 0, "", "none", None, None)

InitStorage ==
    /\ jobMatches = <<>>
    /\ resumes = <<>>
    /\ analyses = <<>>
    /\ last = NoExchange
    /\ page = NoPage
    /\ users = <<>>
    /\ inflight = <<>>

StoreUser ==
    /\ DOMAIN users # Users
    /\ \E username \in Usernames :
            users' = createUser(users, FreshUserId, [username |-> username])
    /\ last' = StorageCall("createUser", FreshUserId)
    /\ UNCHANGED <<jobMatches, resumes, analyses, page, inflight>>

StoreResume ==
    /\ DOMAIN resumes # ResumeIds
    /\ \E insertResume \in ResumeInserts :
            resumes' = createResume(resumes, FreshResumeId, insertResume)
    /\ last' = StorageCall("createResume", FreshResumeId)
    /\ UNCHANGED <<jobMatches, analyses, page, users, inflight>>

StoreAnalysis ==
    /\ DOMAIN analyses # AnalysisIds
    /\ analyses' = createAnalysis(analyses, FreshAnalysisId, AnalysisInsert)
    /\ last' = StorageCall("createAnalysis", FreshAnalysisId)
    /\ UNCHANGED <<jobMatches, resumes, page, users, inflight>>

StoreJobMatch ==
    /\ DOMAIN jobMatches # JobMatchIds
    /\ jobMatches' = createJobMatch(jobMatches, FreshJobMatchId, JobMatchInsert)
    /\ last' = StorageCall("createJobMatch", FreshJobMatchId)
    /\ UNCHANGED <<resumes, analyses, page, users, inflight>>

UpdateResponses ==
    /\ \E id \in JobMatchIds, args \in ResponseArgs :
        /\ jobMatches' = updateJobMatchResponses(jobMatches, id, args.gapResponses,
                                                 args.finalVerdict, args.shouldApply)
        /\ last' = StorageCall("updateJobMatchResponses", id)
    /\ UNCHANGED <<resumes, analyses, page, users, inflight>>

UpdateResume ==
    /\ \E id \in JobMatchIds, tailoredResumeContent \in ResumeContents :
        /\ jobMatches' = updateJobMatchResume(jobMatches, id, tailoredResumeContent)
        /\ last' = StorageCall("updateJobMatchResume", id)
    /\ UNCHANGED <<resumes, analyses, page, users, inflight>>

NextStorage ==
    \/ StoreUser
    \/ StoreResume
    \/ StoreAnalysis
    \/ StoreJobMatch
    \/ UpdateResponses
    \/ UpdateResume

SpecStorage == InitStorage /\ [][NextStorage]_vars

----------------------------------------------------------------------------
(* Calls of the two update operations that overlap.  A call is made with    *)
(* its arguments and then runs: MemStorage runs the body, which has no      *)
(* await between get and set, at once; DbStorage sends one UPDATE           *)
(* statement, and the database runs the statements one after another in     *)
(* any order.                                                               *)

CallIds == {"q1", "q2", "q3"}

StorageRun(call, op, id, args) ==
    Exchange("storage", op, id, Some([call |-> call, args |-> args]), 0, "",
             "none", None, None)

InitRace ==
    /\ jobMatches = createJobMatch(<<>>, "jm1", JobMatchInsert)
    /\ resumes = StoredResumes
    /\ analyses = <<>>
    /\ last = NoExchange
    /\ page = NoPage
    /\ users = StoredUsers
    /\ inflight = <<>>

CallUpdateResponses ==
    /\ \E call \in CallIds \ DOMAIN inflight, args \in ResponseArgs :
            inflight' = MapSet(inflight, call,
                               [op |-> "updateJobMatchResponses", id |-> "jm1",
                                args |-> args, pc |-> "called"])
    /\ UNCHANGED <<jobMatches, resumes, analyses, last, page, users>>

CallUpdateResume ==
    /\ \E call \in CallIds \ DOMAIN inflight, content \in ResumeContents :
            inflight' = MapSet(inflight, call,
                               [op |-> "updateJobMatchResume", id |-> "jm1",
                                args |-> [tailoredResumeContent |-> content],
                                pc |-> "called"])
    /\ UNCHANGED <<jobMatches, resumes, analyses, last, page, users>>

RunUpdate ==
    /\ \E call \in DOMAIN inflight :
        LET c == inflight[call] IN
        /\ c.pc = "called"
        /\ jobMatches' =
              IF c.op = "updateJobMatchResponses"
              THEN updateJobMatchResponses(jobMatches, c.id, c.args.gapResponses,
                                           c.args.finalVerdict, c.args.shouldApply)
              ELSE updateJobMatchResume(jobMatches, c.id, c.args.tailoredResumeContent)
        /\ inflight' = MapSet(inflight, call, Spread(c, [pc |-> "done"]))
        /\ last' = StorageRun(call, c.op, c.id, c.args)
    /\ UNCHANGED <<resumes, analyses, page, users>>

NextRace == CallUpdateResponses \/ CallUpdateResume \/ RunUpdate

SpecRace == InitRace /\ [][NextRace]_vars

----------------------------------------------------------------------------
(* POST /api/auth/login on DbStorage.  The handler awaits the lookup and    *)
(* then the insert; each is a statement sent to the database, and other     *)
(* requests are served while it is under way.  A handler on MemStorage,     *)
(* whose awaits resume before the next request is read, is the run in which *)
(* the steps of a request follow one another.                               *)

(* username: text("username").notNull().unique() *)
UsernameTaken(store, username) == IsSome(getUserByUsername(store, username))

LoginRequest(username, pc, status, user) ==
    [op |-> "login", username |-> username, pc |-> pc, status |-> status,
     user |-> user]

LoginResponse(call, username, status, reason, user) ==
    Exchange("api", "login", call, Some([username |-> username]), status, reason,
             "none", None, user)

InitLogin ==
    /\ jobMatches = <<>>
    /\ resumes = <<>>
    /\ analyses = <<>>
    /\ last = NoExchange
    /\ page = NoPage
    /\ users = <<>>
    /\ inflight = <<>>

(* the request arrives and its body parses: getUserByUsername is called *)
LoginArrives ==
    /\ \E call \in CallIds \ DOMAIN inflight, username \in Usernames :
            inflight' = MapSet(inflight, call,
                               LoginRequest(username, "lookup", 0, None))
    /\ UNCHANGED <<jobMatches, resumes, analyses, last, page, users>>

(* the lookup runs; a user that is found is put in the session and sent,   *)
(* otherwise createUser is called                                          *)
LoginLookup ==
    /\ \E call \in DOMAIN inflight :
        LET c == inflight[call]
            user == getUserByUsername(users, c.username)
        IN  /\ c.pc = "lookup"
            /\ IF IsSome(user)
               THEN /\ inflight' = MapSet(inflight, call,
                                     LoginRequest(c.username, "done", 200, user))
                    /\ last' = LoginResponse(call, c.username, 200, "", user)
               ELSE /\ inflight' = MapSet(inflight, call,
                                     LoginRequest(c.username, "create", 0, None))
                    /\ UNCHANGED last
    /\ UNCHANGED <<jobMatches, resumes, analyses, page, users>>

(* the insert runs: the row is stored, or the unique constraint rejects it *)
(* and the handler's catch answers 400                                     *)
LoginCreate ==
    /\ \E call \in DOMAIN inflight :
        LET c == inflight[call] IN
        /\ c.pc = "create"
        /\ IF UsernameTaken(users, c.username)
           THEN /\ inflight' = MapSet(inflight, call,
                                 LoginRequest(c.username, "done", 400, None))
                /\ last' = LoginResponse(call, c.username, 400, "Login failed", None)
                /\ UNCHANGED users
           ELSE LET next == createUser(users, FreshUserId, [username |-> c.username])
                IN  /\ users' = next
                    /\ inflight' = MapSet(inflight, call,
                                     LoginRequest(c.username, "done", 200,
                                                  Some(next[FreshUserId])))
                    /\ last' = LoginResponse(call, c.username, 200, "",
                                             Some(next[FreshUserId]))
    /\ UNCHANGED <<jobMatches, resumes, analyses, page>>

NextLogin == LoginArrives \/ LoginLookup \/ LoginCreate

SpecLogin == InitLogin /\ [][NextLogin]_vars

----------------------------------------------------------------------------
(* Properties *)

Stored(id) == jobMatches[id]
Has(id, field) == IsSome(Field(jobMatches[id], field))
GapCount(id) == Len(jobMatches[id].gaps)
LastBody == The(last.body)

(* the list holds a response for every gap index of JobMatch id *)
Covers(body, id) ==
    \A i \in 0..(GapCount(id) - 1) : \E k \in 1..Len(body) : body[k].gapIndex = i

(* C1: a "generate tailored resume" on a JobMatch without persisted gap      *)
(* responses is rejected, with no Tailored-Resume LLM call and nothing       *)
(* stored; in every state a JobMatch with tailored resume content has gap    *)
(* responses.                                                                *)
C1_GenerateNeedsGapResponses ==
    /\ \A id \in DOMAIN jobMatches :
          Has(id, "tailoredResumeContent") => Has(id, "gapResponses")
    /\ (/\ last.op = "generate"
        /\ last.id \in DOMAIN jobMatches
        /\ ~Has(last.id, "gapResponses"))
          => /\ last.status = 400
             /\ last.llm = "none"
             /\ ~Has(last.id, "tailoredResumeContent")

C1_Witness ==
    /\ last.op = "generate"
    /\ last.status = 400
    /\ last.id \in DOMAIN jobMatches
    /\ ~Has(last.id, "gapResponses")

(* C2: a submission holding a gapIndex outside 0..(gaps - 1) is rejected:    *)
(* no Final-Verdict LLM call, and the stored JobMatches are unchanged.       *)
C2_OutOfRangeRejected ==
    [][(/\ last'.op = "submit"
        /\ last'.id \in DOMAIN jobMatches
        /\ \E k \in 1..Len(The(last'.body)) :
              The(last'.body)[k].gapIndex \notin 0..(GapCount(last'.id) - 1))
          => /\ last'.status = 400
             /\ last'.llm = "none"
             /\ jobMatches' = jobMatches]_vars

C2_Witness ==
    /\ last.op = "submit"
    /\ last.status = 400
    /\ last.id \in DOMAIN jobMatches
    /\ GapCount(last.id) = MaxGaps
    /\ \E k \in 1..Len(LastBody) : LastBody[k].gapIndex = FarIndex

(* C3: every stored response's gapIndex is an index of the same JobMatch's   *)
(* gaps, and there are no more stored responses than gaps.                   *)
C3_StoredResponsesInRange ==
    \A id \in DOMAIN jobMatches :
        Has(id, "gapResponses") =>
            LET stored == Stored(id).gapResponses IN
            /\ \A k \in 1..Len(stored) :
                  0 <= stored[k].gapIndex /\ stored[k].gapIndex < GapCount(id)
            /\ Len(stored) <= GapCount(id)

C3_Witness ==
    /\ last.op = "submit"
    /\ last.status = 200
    /\ GapCount(last.id) = MaxGaps
    /\ Has(last.id, "tailoredResumeContent")

(* C4: a submission is accepted only if it holds a response for every gap    *)
(* index; the page submits only such lists; a stored verdict always comes     *)
(* with responses for every gap.                                              *)
C4_AcceptedCoversAllGaps ==
    /\ (/\ last.op = "submit"
        /\ last.id \in DOMAIN jobMatches
        /\ (last.status = 200 \/ last.via = "page"))
          => Covers(LastBody, last.id)
    /\ \A id \in DOMAIN jobMatches :
          Has(id, "finalVerdict") =>
              /\ Has(id, "gapResponses")
              /\ Covers(Stored(id).gapResponses, id)

C4_Witness ==
    /\ last.op = "submit"
    /\ last.status = 400
    /\ last.id \in DOMAIN jobMatches
    /\ ~Covers(LastBody, last.id)
    /\ last.reason = "missing response for a gap"

(* C5: a submission holding a proficiencyLevel outside the enum is rejected   *)
(* with a reason and changes nothing in storage; no such value is stored.     *)
C5_InvalidLevelRejected ==
    [][/\ (/\ last'.op = "submit"
           /\ last'.id \in DOMAIN jobMatches
           /\ \E k \in 1..Len(The(last'.body)) :
                 The(last'.body)[k].proficiencyLevel \notin PROFICIENCY_LEVELS)
             => /\ last'.status = 400
                /\ last'.reason # ""
                /\ last'.llm = "none"
                /\ jobMatches' = jobMatches
       /\ \A id \in DOMAIN jobMatches' :
             IsSome(Field(jobMatches'[id], "gapResponses")) =>
                 \A k \in 1..Len(jobMatches'[id].gapResponses) :
                     jobMatches'[id].gapResponses[k].proficiencyLevel
                         \in PROFICIENCY_LEVELS]_vars

C5_Witness ==
    /\ last.op = "submit"
    /\ last.status = 400
    /\ last.id \in DOMAIN jobMatches
    /\ last.reason = "invalid proficiency level"
    /\ \E k \in 1..Len(LastBody) : LastBody[k].proficiencyLevel = "expert"

(* C6: gap responses, verdict text and shouldApply are stored together or     *)
(* not at all, also after a Final-Verdict stage that failed.                  *)
C6_AssessmentAllOrNothing ==
    \A id \in DOMAIN jobMatches :
        /\ Has(id, "gapResponses") <=> Has(id, "finalVerdict")
        /\ Has(id, "finalVerdict") <=> Has(id, "shouldApply")
        /\ Has(id, "finalVerdict") => Stored(id).finalVerdict # ""
        /\ Has(id, "shouldApply") => Stored(id).shouldApply \in BOOLEAN

C6_Witness ==
    /\ last.op = "submit"
    /\ last.status = 500
    /\ last.llm = "verdict"
    /\ \E id \in DOMAIN jobMatches : Has(id, "shouldApply")
    /\ ~Has(last.id, "finalVerdict")

(* the provider's call failed, or its answer could not be read *)
LlmFailed(reply) == ~reply.ok \/ ("fmt" \in DOMAIN reply /\ reply.fmt = "invalid")

(* C7: an action whose LLM call fails answers with one failure and leaves    *)
(* storage unchanged; an Analysis is created only by an "analyze" whose LLM  *)
(* call returned a result, and then it is the one new record.                *)
C7_LlmFailureStoresNothing ==
    [][/\ (last'.llm # "none" /\ LlmFailed(The(last'.reply)))
             => /\ last'.status = 500
                /\ last'.out = None
                /\ analyses' = analyses
                /\ jobMatches' = jobMatches
                /\ resumes' = resumes
       /\ analyses' # analyses
             => /\ last'.op = "analyze"
                /\ last'.status = 200
                /\ ~LlmFailed(The(last'.reply))
                /\ \E id \in AnalysisIds \ DOMAIN analyses :
                      /\ DOMAIN analyses' = DOMAIN analyses \cup {id}
                      /\ analyses'[id] = The(last'.out)
                      /\ \A other \in DOMAIN analyses : analyses'[other] = analyses[other]
      ]_vars

C7_Witness ==
    /\ last.op = "analyze"
    /\ last.status = 500
    /\ last.reply = Some(ProviderError)
    /\ DOMAIN analyses = {"a1"}

(* min(hi, max(0, v)) by cases, 0 for a score that is missing *)
Expected(hi, j) ==
    CASE j.t # "number" -> 0
      [] j.t = "number" /\ j.n < 0 -> 0
      [] j.t = "number" /\ j.n > hi -> hi
      [] OTHER -> j.n

(* C10: the gateway result of a score v is min(hi, max(0, v)), hi = 100 for   *)
(* completenessScore and alignmentScore and 5 for the four section scores, a  *)
(* missing score gives 0; every stored Analysis has completenessScore in      *)
(* 0..100 and section scores in 0..5.                                         *)
C10_ScoresClamped ==
    /\ \A id \in DOMAIN analyses :
          /\ analyses[id].completenessScore \in 0..100
          /\ \A name \in SectionNames : analyses[id].sectionScores[name] \in 0..5
    /\ \A id \in DOMAIN jobMatches : jobMatches[id].alignmentScore \in 0..100
    /\ (last.op = "analyze" /\ last.status = 200) =>
          LET raw == JSONparse(The(last.reply)).value
              out == The(last.out)
          IN  /\ analyses[out.id] = out
              /\ out.completenessScore = Expected(100, JGet(raw, "completenessScore"))
              /\ \A name \in SectionNames :
                    out.sectionScores[name]
                        = Expected(5, JGet(JGet(raw, "sectionScores"), name))
    /\ (last.op = "create" /\ last.status = 200) =>
          LET raw == JSONparse(The(last.reply)).value IN
          The(last.out).alignmentScore = Expected(100, JGet(raw, "alignmentScore"))

C10_Witness ==
    /\ last.op = "analyze"
    /\ last.status = 200
    /\ JGet(The(last.reply).val, "completenessScore") = JNum(140)
    /\ The(last.out).completenessScore = 100
    /\ \E id \in DOMAIN analyses :
          /\ id # The(last.out).id
          /\ analyses[id].sectionScores.other = 5

(* C8 (as claimed): once a verdict is stored, "submit gap responses" is no    *)
(* longer offered and the stored responses, verdict and shouldApply do not    *)
(* change, for every number of gaps.                                          *)
C8_OneShotSubmit ==
    [][/\ \A id \in DOMAIN jobMatches :
             Has(id, "finalVerdict") =>
                 /\ jobMatches'[id].gapResponses = Stored(id).gapResponses
                 /\ jobMatches'[id].finalVerdict = Stored(id).finalVerdict
                 /\ jobMatches'[id].shouldApply = Stored(id).shouldApply
       /\ SubmitOffered' =>
             ~IsSome(Field(jobMatches'[page'.id], "finalVerdict"))]_vars

(* C9 (as claimed): after a successful "generate tailored resume" the stored  *)
(* JobMatch holds both the changes summary and the resume body of that call.  *)
C9_BothHalvesPersisted ==
    (last.op = "generate" /\ last.status = 200) =>
        /\ Field(Stored(last.id), "tailoredResumeContent")
              = Some(The(last.out).resumeMarkdown)
        /\ Field(Stored(last.id), "changesSummary")
              = Some(The(last.out).changesSummary)

(* what the gateway call recorded in last was given and gave back *)
Raw == JSONparse(The(last.reply)).value
Out == The(last.out)
CallReturned(task) == last.via = "gateway" /\ last.llm = task /\ last.out # None

(* the list the model returned in a field, empty when there is none *)
RawList(field) ==
    IF JGet(Raw, field).t = "array" THEN JGet(Raw, field).items ELSE <<>>

(* out is the first min(n, cap) items of raw, in order *)
IsPrefix(out, raw, cap) ==
    /\ Len(out) = (IF Len(raw) <= cap THEN Len(raw) ELSE cap)
    /\ \A k \in 1..Len(out) : out[k] = raw[k]

(* C11: every list of a gateway result is the prefix of the model's list of  *)
(* length min(n, cap), in order: cap 8 for suggestions, gaps and              *)
(* recommendations, 6 for strengths; a missing list gives the empty list.     *)
C11_ListsArePrefixes ==
    /\ CallReturned("analyzeResume") =>
          IsPrefix(Out.suggestions, RawList("suggestions"), 8)
    /\ CallReturned("analyzeJobMatch") =>
          /\ IsPrefix(Out.strengths, RawList("strengths"), 6)
          /\ IsPrefix(Out.recommendations, RawList("recommendations"), 8)
          /\ IsPrefix([k \in 1..Len(Out.gaps) |-> Out.gaps[k].category],
                      [k \in 1..Len(RawList("gaps")) |->
                          JGet(RawList("gaps")[k], "category").v], 8)

C11_Witness ==
    /\ CallReturned("analyzeJobMatch")
    /\ Len(RawList("strengths")) = MaxListLen
    /\ Len(Out.strengths) = 6
    /\ Out.strengths[1] = JStr(ItemNames[MaxListLen])

(* C12: the severity of every gap of a job-match result is the model's value  *)
(* when that is high, medium or low and "medium" otherwise, also when the     *)
(* field is missing; the gap is kept.                                         *)
C12_SeverityCoerced ==
    CallReturned("analyzeJobMatch") =>
        /\ Len(Out.gaps) = (IF Len(RawList("gaps")) <= 8 THEN Len(RawList("gaps")) ELSE 8)
        /\ \A k \in 1..Len(Out.gaps) :
              LET given == JGet(RawList("gaps")[k], "severity") IN
              /\ Out.gaps[k].severity \in {"high", "medium", "low"}
              /\ Out.gaps[k].severity =
                    IF given \in {JStr("high"), JStr("medium"), JStr("low")}
                    THEN given.v ELSE "medium"

C12_Witness ==
    /\ CallReturned("analyzeJobMatch")
    /\ Len(RawList("gaps")) = 2
    /\ JGet(RawList("gaps")[1], "severity") = JStr("urgent")
    /\ Out.gaps[1].severity = "medium"
    /\ Out.gaps[2].severity = "high"

(* C13: a tailored-resume response without the separator does not throw: the  *)
(* whole text, unmodified, is the resume body and the changes summary is the  *)
(* placeholder "Unable to generate changes summary"; also for an empty text.  *)
C13_NoSeparatorFallback ==
    (/\ last.via = "gateway"
     /\ last.llm = "generateTailoredResume"
     /\ The(last.reply).ok
     /\ \A k \in 1..Len(The(last.reply).text) : The(last.reply).text[k] # SEP)
        => /\ last.out # None
           /\ Out.resumeMarkdown = The(last.reply).text
           /\ Out.changesSummary = <<"Unable to generate changes summary">>

C13_Witness ==
    /\ CallReturned("generateTailoredResume")
    /\ The(last.reply).text = <<" ", "a", " ">>
    /\ Out.resumeMarkdown = <<" ", "a", " ">>

SchemaTasks ==
    {"analyzeResume", "analyzeJobMatch", "generateFinalVerdict", "generateCareerRoadmap"}

(* C14 (as claimed): a schema-bound task whose response is not JSON, or is    *)
(* JSON without a required field, never throws to its caller: it returns the  *)
(* defaulted result (score 0, empty list, placeholder text).                  *)
C14_DefectiveReplyDefaulted ==
    (/\ last.via = "gateway"
     /\ last.llm \in SchemaTasks
     /\ The(last.reply).ok)
        => /\ last.out # None
           /\ (last.llm = "analyzeResume" /\ JGet(Raw, "completenessScore").t = "undefined")
                 => Out.completenessScore = 0
           /\ (last.llm = "analyzeResume" /\ JGet(Raw, "suggestions").t = "undefined")
                 => Out.suggestions = <<>>
           /\ (last.llm = "generateFinalVerdict" /\ JGet(Raw, "verdict").t = "undefined")
                 => Out.verdict = "Unable to generate verdict at this time."

(* what the extraction recorded in last was given and gave back *)
Given == The(last.body)
Result == The(last.out)
Extracting == last.op = "extract" /\ last.out # None

SupportedKind(mimeType) ==
    \/ mimeType \in {PdfKind, DocxKind, MswordKind, PlainKind}
    \/ mimeType[1] = "image"

(* C15: extractText takes its path from the declared kind alone, and fails    *)
(* with "Unsupported file type" for every other kind whatever the bytes are.  *)
C15_PathFromKindAlone ==
    Extracting =>
        /\ ~SupportedKind(Given.mimeType) =>
              (Result.threw /\ Result.message = <<UnsupportedMessage>>)
        /\ SupportedKind(Given.mimeType) => Result.message # <<UnsupportedMessage>>
        /\ Given.mimeType = PdfKind => Result = extractTextFromPDF(Given.buffer)
        /\ Given.mimeType \in {DocxKind, MswordKind} =>
              Result = extractTextFromDOCX(Given.buffer)
        /\ Given.mimeType[1] = "image" => Result = extractTextFromImage(Given.buffer)
        /\ Given.mimeType = PlainKind =>
              (~Result.threw /\ Result.text = Given.buffer.content)

C15_Witness ==
    /\ Extracting
    /\ Given.mimeType = <<"text", "html">>
    /\ Given.buffer.header
    /\ Given.buffer.length = 101
    /\ Given.buffer.fault = ""
    /\ Result.message = <<UnsupportedMessage>>

(* C16: a buffer of fewer than 100 bytes declared as PDF fails with the       *)
(* "too small" failure, never with the generic failure and never succeeds.    *)
C16_ShortPdfTooSmall ==
    (Extracting /\ Given.mimeType = PdfKind /\ Given.buffer.length < 100) =>
        /\ Result.threw
        /\ Result.message = <<TooSmallMessage>>
        /\ Result.message[1] # PdfFailurePrefix

C16_Witness ==
    /\ Extracting
    /\ Given.mimeType = PdfKind
    /\ Given.buffer.length = 99
    /\ Given.buffer.header
    /\ Given.buffer.content = Text(0, 50, 0)
    /\ Result.message = <<TooSmallMessage>>

(* C17 (as claimed): a buffer declared as PDF that does not begin with %PDF-  *)
(* fails with the format-mismatch failure, for every length.                  *)
C17_NotPdfAnyLength ==
    (Extracting /\ Given.mimeType = PdfKind /\ ~Given.buffer.header) =>
        (Result.threw /\ Result.message = <<NotPdfMessage>>)

(* C17 (amended): a buffer of at least 100 bytes declared as PDF that does    *)
(* not begin with %PDF- fails with the format-mismatch failure, which is not  *)
(* the corrupt-or-protected one; a shorter one fails with "too small".        *)
C17_NotPdfFromHundredBytes ==
    (Extracting /\ Given.mimeType = PdfKind /\ ~Given.buffer.header) =>
        /\ Result.threw
        /\ Result.message # <<UnreadablePdfMessage>>
        /\ Given.buffer.length >= 100 => Result.message = <<NotPdfMessage>>
        /\ Given.buffer.length < 100 => Result.message = <<TooSmallMessage>>

C17_Witness ==
    /\ Extracting
    /\ Given.mimeType = PdfKind
    /\ ~Given.buffer.header
    /\ Given.buffer.length = 100
    /\ Given.buffer.fault = "Invalid PDF structure."
    /\ Result.message = <<NotPdfMessage>>

(* the input is one its path reads without an earlier failure *)
Readable ==
    /\ SupportedKind(Given.mimeType)
    /\ Given.mimeType # PlainKind => Given.buffer.fault = ""
    /\ Given.mimeType = PdfKind => (Given.buffer.length >= 100 /\ Given.buffer.header)

EmptyExtractionMessages == {<<EmptyPdfMessage>>, <<EmptyDocxMessage>>, <<EmptyImageMessage>>}

(* C18 (as claimed): on every supported kind, an input whose text is empty    *)
(* after trimming fails with the empty-extraction failure; no empty or        *)
(* whitespace-only string is returned.                                        *)
C18_EmptyTextFails ==
    (Extracting /\ Readable /\ Given.buffer.content.body = 0) =>
        (Result.threw /\ Result.message \in EmptyExtractionMessages)

(* C19 (as claimed): on every supported kind, a valid input whose text has    *)
(* at least 50 characters gives that text with the whitespace at its ends     *)
(* removed, and does not throw.                                               *)
C19_TextReturnedTrimmed ==
    (Extracting /\ Readable /\ TextLength(trimText(Given.buffer.content)) >= 50) =>
        /\ ~Result.threw
        /\ Result.text.body = Given.buffer.content.body
        /\ Result.text.lead = 0
        /\ Result.text.trail = 0

(* C20: an upload creates a Resume only when the extracted text has at least  *)
(* 50 characters; with a shorter or empty text it is rejected and stores      *)
(* nothing; every stored Resume has an extractedText of 50 characters or more. *)
C20_StoredTextLongEnough ==
    [][/\ \A id \in DOMAIN resumes' : TextLength(resumes'[id].extractedText) >= 50
       /\ resumes' # resumes =>
             /\ last'.op = "upload"
             /\ last'.status = 200
             /\ TextLength(The(last'.out).extractedText) >= 50
             /\ resumes'[The(last'.out).id] = The(last'.out)
       /\ (/\ last'.op = "upload"
           /\ last'.body # None
           /\ last'.status # 401
           /\ LET result == extractText(The(last'.body).buffer, The(last'.body).mimetype)
              IN  ~result.threw /\ TextLength(result.text) < 50)
             => (last'.status = 400 /\ resumes' = resumes)]_vars

C20_Witness ==
    /\ last.op = "upload"
    /\ last.status = 400
    /\ last.body # None
    /\ The(last.body).buffer.content = Text(1, 49, 1)
    /\ The(last.body).mimetype = PdfKind
    /\ DOMAIN resumes = {"r1"}

(* the model's JSON of a final-verdict call that returned *)
VerdictCall ==
    /\ last.via = "gateway"
    /\ last.llm = "generateFinalVerdict"
    /\ last.out # None

IsFalse(j) == j.t = "boolean" /\ j.v = "false"
IsText(j) == j.t = "string" /\ j.v # ""

(* C30: generateFinalVerdict advises against applying only when the model's   *)
(* shouldApply is the boolean false: a missing field, null, a string, a       *)
(* number and an empty response all give true. The verdict is the model's     *)
(* text, or the placeholder when the text is missing or empty, so the result  *)
(* always has a non-empty verdict and a boolean shouldApply.                  *)
C30_OnlyFalseAdvisesAgainst ==
    VerdictCall =>
        /\ Out.shouldApply \in BOOLEAN
        /\ Out.shouldApply = ~IsFalse(JGet(Raw, "shouldApply"))
        /\ Out.verdict # ""
        /\ Out.verdict = IF IsText(JGet(Raw, "verdict"))
                         THEN JGet(Raw, "verdict").v
                         ELSE "Unable to generate verdict at this time."

(* a reply with shouldApply null and an empty verdict came back as advice to  *)
(* apply with the placeholder                                                 *)
C30_Witness ==
    /\ VerdictCall
    /\ JGet(Raw, "shouldApply").t = "null"
    /\ JGet(Raw, "verdict") = JStr("")
    /\ Out.shouldApply
    /\ Out.verdict = "Unable to generate verdict at this time."

(* the text of a tailored-resume response that came back, and its words *)
FullResponse == The(last.reply).text
NotBlank(token) == token \notin Whitespace
Words(text) == SelectSeq(text, NotBlank)

(* C26: when the response holds the separator, generateTailoredResume splits  *)
(* at its first occurrence: the summary is the trimmed text before it and the *)
(* body the trimmed text after it, later separators staying in the body; the  *)
(* first separator is in neither part and nothing else but surrounding        *)
(* whitespace is dropped.                                                     *)
C26_SplitAtFirstSeparator ==
    (/\ CallReturned("generateTailoredResume")
     /\ \E k \in 1..Len(FullResponse) : FullResponse[k] = SEP)
        => \E k \in 1..Len(FullResponse) :
              /\ FullResponse[k] = SEP
              /\ \A j \in 1..(k - 1) : FullResponse[j] # SEP
              /\ Out.changesSummary = trim(SubSeq(FullResponse, 1, k - 1))
              /\ Out.resumeMarkdown = trim(SubSeq(FullResponse, k + 1, Len(FullResponse)))
              /\ Words(Out.changesSummary) \o <<SEP>> \o Words(Out.resumeMarkdown)
                    = Words(FullResponse)

(* a response with two separators: the second one is kept in the body *)
C26_Witness ==
    /\ CallReturned("generateTailoredResume")
    /\ FullResponse = <<"a", SEP, SEP>>
    /\ Out.changesSummary = <<"a">>
    /\ Out.resumeMarkdown = <<SEP>>

(* C25 (as claimed): on the PDF path no failure is reported as a generic,    *)
(* unclassified error: every failure of the parser on a buffer that passed   *)
(* the size and header checks is the corrupt-or-protected failure, distinct  *)
(* from the header-mismatch and the empty-extraction failures.               *)
C25_ParserFailuresClassified ==
    (/\ Extracting
     /\ Given.mimeType = PdfKind
     /\ Given.buffer.length >= 100
     /\ Given.buffer.header
     /\ Given.buffer.fault # "")
        => /\ Result.threw
           /\ Result.message = <<UnreadablePdfMessage>>
           /\ Result.message # <<NotPdfMessage>>
           /\ Result.message # <<EmptyPdfMessage>>
           /\ Result.message[1] # PdfFailurePrefix

(* C21: every successful analyze of an existing resume creates exactly one   *)
(* new Analysis, under a fresh id and referencing that resume, however many  *)
(* analyses of the resume exist already; the earlier ones stay as they were. *)
C21_AnalyzeAddsOneAnalysis ==
    [][(last' # last /\ last'.op = "analyze" /\ last'.status = 200) =>
          /\ last'.id \in DOMAIN resumes
          /\ \E new \in DOMAIN analyses' \ DOMAIN analyses :
                /\ DOMAIN analyses' = DOMAIN analyses \cup {new}
                /\ analyses'[new].id = new
                /\ analyses'[new].resumeId = last'.id
                /\ The(last'.out) = analyses'[new]
          /\ \A old \in DOMAIN analyses : analyses'[old] = analyses[old]]_vars

(* the resume r1 was analyzed twice and has two analyses *)
C21_Witness ==
    /\ last.op = "analyze"
    /\ last.status = 200
    /\ last.id = "r1"
    /\ DOMAIN analyses = {"a1", "a2"}
    /\ analyses["a1"].resumeId = "r1"
    /\ analyses["a2"].resumeId = "r1"
    /\ The(last.out).id = "a2"

(* the three routes that read or analyze a resume, who asks, and the resume  *)
(* the request is about (for an analysis: the one it belongs to)             *)
ResumeOps == {"getResume", "analyze", "getAnalysis"}
Asker(x) == The(x.body).userId
AboutResume(x) ==
    IF x.op # "getAnalysis" THEN Some(x.id)
    ELSE IF x.id \in DOMAIN analyses THEN Some(analyses[x.id].resumeId) ELSE None
Foreign(x) ==
    /\ IsSome(Asker(x))
    /\ IsSome(AboutResume(x))
    /\ The(AboutResume(x)) \in DOMAIN resumes
    /\ resumes[The(AboutResume(x))].userId # The(Asker(x))
Refused(x, status) ==
    /\ x.status = status
    /\ x.out = None
    /\ x.llm = "none"
    /\ x.reply = None

(* C27: reading a resume, analyzing a resume and reading an analysis fail    *)
(* with 401 without a session and with 403 when the resume is another        *)
(* user's; then no resume or analysis data is returned, the model is not     *)
(* called and no Analysis is created.                                        *)
C27_RefusedWithoutLeak ==
    [][(last' # last /\ last'.op \in ResumeOps) =>
          /\ ~IsSome(Asker(last')) => (Refused(last', 401) /\ analyses' = analyses)
          /\ Foreign(last') => (Refused(last', 403) /\ analyses' = analyses)]_vars

(* u2 asked for an analysis of u1's resume and got 403 *)
C27_Witness ==
    /\ last.op = "getAnalysis"
    /\ Asker(last) = Some("u2")
    /\ last.id \in DOMAIN analyses
    /\ resumes[analyses[last.id].resumeId].userId = "u1"
    /\ Refused(last, 403)

(* C22: no storage operation removes a stored User, Resume, Analysis or     *)
(* JobMatch (the sets of ids only grow), and a stored Resume keeps every     *)
(* field it was created with.                                                *)
C22_NothingRemoved ==
    [][/\ DOMAIN users \subseteq DOMAIN users'
       /\ DOMAIN resumes \subseteq DOMAIN resumes'
       /\ DOMAIN analyses \subseteq DOMAIN analyses'
       /\ DOMAIN jobMatches \subseteq DOMAIN jobMatches'
       /\ \A id \in DOMAIN resumes : resumes'[id] = resumes[id]]_vars

(* every store is full, a second resume of the same user was stored after    *)
(* the first, and a JobMatch went through both updates                       *)
C22_Witness ==
    /\ DOMAIN users = Users
    /\ DOMAIN resumes = ResumeIds
    /\ resumes["r1"].userId = resumes["r2"].userId
    /\ DOMAIN analyses = AnalysisIds
    /\ DOMAIN jobMatches = JobMatchIds
    /\ "tailoredResumeContent" \in DOMAIN jobMatches["jm1"]
    /\ "gapResponses" \in DOMAIN jobMatches["jm1"]

StageFields == {"gapResponses", "finalVerdict", "shouldApply"}
ResumeFields == {"tailoredResumeContent"}

(* the step changes, of the JobMatch id, the given fields at most, and       *)
(* nothing else in the storage                                               *)
ChangesOnly(id, fields) ==
    /\ DOMAIN jobMatches' = DOMAIN jobMatches
    /\ \A k \in DOMAIN jobMatches : k # id => jobMatches'[k] = jobMatches[k]
    /\ id \in DOMAIN jobMatches =>
          /\ DOMAIN jobMatches'[id] \ fields = DOMAIN jobMatches[id] \ fields
          /\ \A f \in DOMAIN jobMatches[id] \ fields :
                jobMatches'[id][f] = jobMatches[id][f]
    /\ UNCHANGED <<users, resumes, analyses>>

(* C23: updateJobMatchResponses changes gapResponses, finalVerdict and       *)
(* shouldApply of the named JobMatch only, and updateJobMatchResume its      *)
(* tailored-resume field only: every other field and every other record is   *)
(* as before.                                                                *)
C23_UpdatesTouchOwnFields ==
    [][/\ last'.op = "updateJobMatchResponses" => ChangesOnly(last'.id, StageFields)
       /\ last'.op = "updateJobMatchResume" => ChangesOnly(last'.id, ResumeFields)]_vars

(* jm1, holding a generated resume, took new responses next to an untouched  *)
(* jm2 of the same resume                                                    *)
C23_Witness ==
    /\ last.op = "updateJobMatchResponses"
    /\ last.id = "jm1"
    /\ DOMAIN jobMatches = JobMatchIds
    /\ jobMatches["jm1"].finalVerdict = "v2"
    /\ "tailoredResumeContent" \in DOMAIN jobMatches["jm1"]
    /\ jobMatches["jm1"].tailoredResumeContent = "c1"
    /\ "gapResponses" \notin DOMAIN jobMatches["jm2"]

(* the submission a JobMatch holds, and the calls of an operation that ran *)
Triple(jobMatch) == [f \in StageFields |-> jobMatch[f]]
Ran(op) == {c \in DOMAIN inflight : inflight[c].op = op /\ inflight[c].pc = "done"}
Runs(call) == inflight[call].pc = "called" /\ inflight'[call].pc = "done"

(* C24: when submissions of gap responses to one JobMatch overlap, the last  *)
(* storage write wins: every write stores its own responses, verdict and     *)
(* recommendation together, nothing else changes them, and so the stored     *)
(* three are always those of one submission, never a mixture.                *)
C24_LastSubmissionWins ==
    [][/\ \A call \in DOMAIN inflight :
            (Runs(call) /\ inflight[call].op = "updateJobMatchResponses")
                => Triple(jobMatches'["jm1"]) = inflight[call].args
       /\ (\A call \in DOMAIN inflight :
            ~(Runs(call) /\ inflight[call].op = "updateJobMatchResponses"))
                => /\ "gapResponses" \in DOMAIN jobMatches["jm1"]
                        <=> "gapResponses" \in DOMAIN jobMatches'["jm1"]
                   /\ "gapResponses" \in DOMAIN jobMatches["jm1"]
                        => Triple(jobMatches'["jm1"]) = Triple(jobMatches["jm1"])
       /\ "gapResponses" \in DOMAIN jobMatches'["jm1"]
            => Triple(jobMatches'["jm1"]) \in ResponseArgs]_vars

(* two submissions with different answers ran; q1 was made first and ran    *)
(* last, and the JobMatch holds q1's three values                            *)
C24_Witness ==
    /\ Ran("updateJobMatchResponses") = {"q1", "q2"}
    /\ inflight["q1"].args # inflight["q2"].args
    /\ last.op = "updateJobMatchResponses"
    /\ The(last.body).call = "q1"
    /\ Triple(jobMatches["jm1"]) = inflight["q1"].args

(* C29: updateJobMatchResponses and updateJobMatchResume on one JobMatch do  *)
(* not lose each other's write, in whatever order the calls are made and     *)
(* run: once calls of both have run, the JobMatch holds the responses,       *)
(* verdict and recommendation of a responses call and the tailored resume    *)
(* of a resume call.                                                         *)
C29_BothWritesKept ==
    /\ Ran("updateJobMatchResponses") # {} =>
          /\ StageFields \subseteq DOMAIN jobMatches["jm1"]
          /\ \E call \in Ran("updateJobMatchResponses") :
                Triple(jobMatches["jm1"]) = inflight[call].args
    /\ Ran("updateJobMatchResume") # {} =>
          /\ "tailoredResumeContent" \in DOMAIN jobMatches["jm1"]
          /\ \E call \in Ran("updateJobMatchResume") :
                jobMatches["jm1"].tailoredResumeContent
                    = inflight[call].args.tailoredResumeContent

(* the responses call was made before the resume call and ran after it: the *)
(* JobMatch holds both                                                       *)
C29_Witness ==
    /\ Ran("updateJobMatchResponses") = {"q1"}
    /\ Ran("updateJobMatchResume") = {"q2"}
    /\ The(last.body).call = "q1"
    /\ Triple(jobMatches["jm1"]) = inflight["q1"].args
    /\ jobMatches["jm1"].tailoredResumeContent = "c2"

(* the logins that were answered *)
Answered == {c \in DOMAIN inflight : inflight[c].op = "login" /\ inflight[c].pc = "done"}

(* C28 (as claimed): after any interleaving of login requests there is at    *)
(* most one User per username, and every login with the same username is     *)
(* given the same user id.                                                   *)
C28_OneUserPerUsername ==
    /\ \A a, b \in DOMAIN users : users[a].username = users[b].username => a = b
    /\ \A c \in Answered :
          /\ inflight[c].status = 200
          /\ IsSome(inflight[c].user)
          /\ \A d \in Answered :
                inflight[d].username = inflight[c].username
                    => inflight[d].user = inflight[c].user

====
